---------------------------- MODULE Spec2Model ----------------------------
(***************************************************************************)
(* Client-side authentication of the IOLTA manager                         *)
(* (src/lib/auth/local-auth.ts over the Dexie tables and the localStorage  *)
(* helpers of src/unnamed/part_000).                                       *)
(*                                                                         *)
(* Every browser tab runs the same async functions against one shared      *)
(* IndexedDB (users, sessions, organizations, members), one localStorage   *)
(* entry                                                                   *)
(* 'iolta:session' and one shared cookie 'iolta:local-session'.  A tab     *)
(* runs one call at a time; a call is cut at its awaits: one step is the   *)
(* awaited database operation together with the synchronous code that      *)
(* follows it up to the next await or the return.  Steps of different      *)
(* tabs interleave freely.                                                 *)
(*                                                                         *)
(* An optional value (T | null | undefined) is a sequence of length 0 or 1.*)
(***************************************************************************)
EXTENDS Integers, Sequences, FiniteSets, TLC

VARIABLES
    users,        \* db.users: set of User rows (primary key id, index email)
    sessions,     \* db.sessions: set of Session rows (primary key id)
    lsSession,    \* localStorage['iolta:session']: <<>> or <<SessionRef>>
    cookie,       \* cookie 'iolta:local-session': <<>> or <<[value, expires]>>
    now,          \* the clock, Date.now(), in milliseconds
    nextUser,     \* number of user ids drawn from crypto.randomUUID so far
    nextSession,  \* number of session ids / tokens drawn so far
    pc,           \* per tab: where its current call is suspended
    loc,          \* per tab: the local variables of its current call
    ret,          \* the outcome of the observed tab's last completed call,
                  \* forgotten as soon as anything else acts
    quiet,        \* how many of the observed tab's latest calls ran undisturbed
    orgs,         \* db.organizations: set of Organization rows (index slug)
    members,      \* db.members: set of Member rows (index userId, organizationId)
    nextOrg,      \* number of organization ids / member ids drawn so far
    ctx,          \* the state of the AuthProvider of the window that mounts one
    task,         \* per activation of that window: the context function it runs
    events,       \* 'storage' events for 'iolta:session' not yet delivered to it
    clients,      \* db.clients: set of Client rows (primary key id)
    matters,      \* db.matters: set of Matter rows (index clientId)
    transactions, \* db.transactions: set of Transaction rows (index matterId)
    holds,        \* db.holds: set of Hold rows (index matterId)
    locked,       \* the tables in the scope of the read-write transaction under way
    nextRow,      \* number of row ids drawn from crypto.randomUUID so far
    page,         \* per tab: the New Transaction / New Hold page it shows
    kv            \* localStorage entries written by saveToLocalStorage, per key

vars == <<users, sessions, lsSession, cookie, now, nextUser, nextSession,
          pc, loc, ret, quiet, orgs, members, nextOrg, ctx, task, events,
          clients, matters, transactions, holds, locked, nextRow, page, kv>>

\* the organization tables and their id counter
orgVars == <<orgs, members, nextOrg>>

\* the AuthProvider and its event queue
ctxVars == <<ctx, task, events>>

\* the trust-accounting tables, the pages over them and the key-value helper
dataVars == <<clients, matters, transactions, holds, locked, nextRow, page, kv>>

\* what the authentication functions work on
authVars == <<users, sessions, lsSession, cookie, now, nextUser, nextSession,
              orgs, members, nextOrg>>

Tabs == {"A", "B"}

\* The window of tab "B" can have two calls under way at a time: a storage
\* event starts loadSession while an earlier one is suspended on an await.
CtxThreads == {"B", "B2"}
Threads == Tabs \cup CtxThreads

\* The tabs run the same code; outcomes are recorded for one of them, and the
\* other one runs beside it.
Observed == "A"

\* Bounds of the model.
MaxUsers == 2
MaxSessions == 2
MaxJumps == 1

-----------------------------------------------------------------------------
(* Inputs *)

\* E-mail addresses are sequences of characters so that toLowerCase acts on them.
SignUpInputs ==
    [email : { <<"j">>, <<"J">>, <<"n">> }, password : {"hunter22"}, name : {"Jane Doe"}]
SignInInputs ==
    { [email |-> <<"J">>, password |-> "hunter22", name |-> ""],
      [email |-> <<"J">>, password |-> "x", name |-> ""],
      [email |-> <<"n">>, password |-> "hunter22", name |-> ""] }
EmailOnlyInputs ==
    [email : { <<"J">> }, password : {""}, name : {""}]
NoData == [email |-> <<>>, password |-> "", name |-> ""]

-----------------------------------------------------------------------------
(* Pure helpers *)

LowerChar(c) ==
    CASE c = "J" -> "j"
      [] c = "N" -> "n"
      [] OTHER -> c

\* String.prototype.toLowerCase
ToLowerCase(s) == [i \in DOMAIN s |-> LowerChar(s[i])]

\* hashPassword: SHA-256 hex digest, collision free on the inputs
HashPassword(password) == <<"sha256", password>>

\* generateToken / crypto.randomUUID: the n-th draw, never repeated
GenerateToken(n) == <<"tok", n>>
RandomUserId(n) == <<"user", n>>
RandomSessionId(n) == <<"sess", n>>

SevenDaysMs == 7 * 24 * 60 * 60 * 1000

\* variant of NewUser: the e-mail is stored as typed
NewUserRawEmail(n, data, t) ==
    [id |-> RandomUserId(n),
     email |-> data.email,
     name |-> data.name,
     passwordHash |-> HashPassword(data.password),
     createdAt |-> t,
     updatedAt |-> t]

\* the User literal of signUpEmail
NewUser(n, data, t) ==
    [id |-> RandomUserId(n),
     email |-> ToLowerCase(data.email),
     name |-> data.name,
     passwordHash |-> HashPassword(data.password),
     createdAt |-> t,
     updatedAt |-> t]

\* variant of NewSession: the lifetime is added in seconds
NewSessionSeconds(n, userId, t) ==
    [id |-> RandomSessionId(n),
     userId |-> userId,
     token |-> GenerateToken(n),
     expiresAt |-> t + 7 * 24 * 60 * 60,
     createdAt |-> t]

\* the Session literal of signUpEmail / signInEmail
NewSession(n, userId, t) ==
    [id |-> RandomSessionId(n),
     userId |-> userId,
     token |-> GenerateToken(n),
     expiresAt |-> t + SevenDaysMs,
     createdAt |-> t]

\* the argument of setSessionRef in signUpEmail / signInEmail
SessionRefOf(session) == [sessionId |-> session.id, token |-> session.token]

\* setAuthCookie(value, days)
AuthCookie(value, days, t) ==
    << [value |-> value, expires |-> t + days * 24 * 60 * 60 * 1000] >>

\* variant of ClearedCookie: the cookie is left as it is
ClearedCookieKept == cookie

\* clearAuthCookie: an expiry in 1970 makes the browser drop the cookie
ClearedCookie == << >>

\* db.users.where('email').equals(email): every row under that index key
UsersByEmail(email) == {u \in users : u.email = email}

\* variant of ExistingUsers: the e-mail is looked up as typed
ExistingUsersCaseSensitive(data) == UsersByEmail(data.email)

\* the test of signUpEmail for an already registered e-mail
ExistingUsers(data) == UsersByEmail(ToLowerCase(data.email))

\* db.sessions.get(id) / db.users.get(id)
SessionsById(id) == {s \in sessions : s.id = id}
UsersById(id) == {u \in users : u.id = id}

\* variant of IsExpired: the boundary instant counts as expired
IsExpiredInclusive(session, t) == session.expiresAt <= t

\* new Date(session.expiresAt) < new Date()
IsExpired(session, t) == session.expiresAt < t

\* variant of TokenMatches: any token is accepted
TokenMatchesAlways(session, r) == TRUE

\* session.token !== sessionRef.token, negated
TokenMatches(session, r) == session.token = r.token

\* const { passwordHash: _, ...safeUser } = user
SafeUser(user) == [f \in (DOMAIN user) \ {"passwordHash"} |-> user[f]]

\* return { user: safeUser, session }
SessionDataOf(user, session) == [user |-> SafeUser(user), session |-> session]

\* the browser keeps a cookie until its expiry time
CookiePresent == Len(cookie) = 1 /\ cookie[1].expires > now

-----------------------------------------------------------------------------
(* Bookkeeping *)

NoLocals ==
    [data |-> NoData, user |-> <<>>, session |-> <<>>, ref |-> <<>>, org |-> <<>>,
     details |-> <<>>, orgIds |-> <<>>, rows |-> <<>>,
     client |-> <<>>, matter |-> <<>>, matterIds |-> <<>>,
     transactions |-> {}, holds |-> {}, row |-> <<>>]

\* The outcome of a call: its arguments, the message of the Error it threw (""
\* when it resolved), the value it resolved to, and the return or throw
\* statement it left by.
Result(op, data, err, val, at) ==
    [op |-> op, args |-> data, err |-> err, val |-> val, at |-> at]
NoResult == Result("none", NoData, "", <<>>, "")

\* what a step of tab p that completes no call leaves of ret
Keep(p) == IF p = Observed THEN ret ELSE NoResult

\* quiet = 0: something else (the other tab, the clock, the environment) acted
\* since the observed tab's latest call began; 1: nothing did; 2: nothing did
\* since the call before that one began.
Disturb(p) == IF p = Observed THEN quiet ELSE 0
Begin(p) == IF p = Observed THEN (IF quiet >= 1 THEN 2 ELSE 1) ELSE 0

Goto(p, label) == pc' = [pc EXCEPT ![p] = label]
Return(p, r) ==
    /\ pc' = [pc EXCEPT ![p] = "idle"]
    /\ loc' = [loc EXCEPT ![p] = NoLocals]
    /\ ret' = IF p = Observed THEN r ELSE NoResult

\* calls under way that have yet to draw a user id / a session id
UsersInFlight == Cardinality({q \in Threads : pc[q] = "su_lookup"})
SessionsInFlight ==
    Cardinality({q \in Threads : pc[q] \in {"su_lookup", "su_addUser", "si_lookup"}})

\* useState(null), useState(true), useState(null), useState(null), useState([]),
\* before the AuthProvider is mounted
NoContext ==
    [mounted |-> FALSE,
     session |-> <<>>,
     isLoading |-> TRUE,
     error |-> <<>>,
     activeOrganization |-> <<>>,
     organizations |-> <<>>]

\* no context function under way in an activation; thrown is the Error with
\* which the promise of its latest function was rejected, if it was
NoTask == [fn |-> "none", stage |-> "", userId |-> <<>>, thrown |-> <<>>]
Task(fn, stage, userId) ==
    [fn |-> fn, stage |-> stage, userId |-> userId, thrown |-> <<>>]

\* throw new Error(message) out of a context function
Rejected(message) == [NoTask EXCEPT !.thrown = << message >>]

\* no New Transaction / New Hold page open in a tab
NoPage ==
    [kind |-> "none", stage |-> "", matterId |-> << >>, selectedMatter |-> << >>,
     error |-> << >>]

\* the localStorage keys that the key-value helper is used with
Keys == {"iolta:activeMatter", "iolta:dashboardState"}

Init ==
    /\ users = {}
    /\ sessions = {}
    /\ lsSession = <<>>
    /\ cookie = <<>>
    /\ now = 0
    /\ nextUser = 0
    /\ nextSession = 0
    /\ pc = [p \in Threads |-> "idle"]
    /\ loc = [p \in Threads |-> NoLocals]
    /\ ret = NoResult
    /\ quiet = 0
    /\ orgs = {}
    /\ members = {}
    /\ nextOrg = 0
    /\ ctx = NoContext
    /\ task = [p \in CtxThreads |-> NoTask]
    /\ events = 0
    /\ clients = {}
    /\ matters = {}
    /\ transactions = {}
    /\ holds = {}
    /\ locked = {}
    /\ nextRow = 0
    /\ page = [p \in Tabs |-> NoPage]
    /\ kv = [k \in Keys |-> << >>]


-----------------------------------------------------------------------------
(* Table and storage operations *)

\* db.users.add(user)
AddUser(table, user) == table \cup {user}

\* variant of AddSession: the user's earlier sessions are replaced
AddSessionReplacing(table, session) ==
    {s \in table : s.userId # session.userId} \cup {session}

\* db.sessions.add(session)
AddSession(table, session) == table \cup {session}

\* variant of DeleteSession: nothing is deleted
DeleteSessionNoop(table, id) == table

\* variant of DeleteSession: the other rows are deleted
DeleteSessionOthers(table, id) == {s \in table : s.id = id}

\* db.sessions.delete(id)
DeleteSession(table, id) == {s \in table : s.id # id}

\* variant of RemovedSessionRef: the entry is left as it is
RemovedSessionRefKept == lsSession

\* removeFromLocalStorage(STORAGE_KEYS.SESSION)
RemovedSessionRef == << >>

\* saveToLocalStorage(STORAGE_KEYS.SESSION, ref); getSessionRef reads it back
SavedSessionRef(r) == << r >>

\* variant of PasswordMatches: every password is accepted
PasswordMatchesAlways(user, password) == TRUE

\* passwordHash !== user.passwordHash, negated
PasswordMatches(user, password) == HashPassword(password) = user.passwordHash

-----------------------------------------------------------------------------
(* signUpEmail *)

SignUpCall(p, data) ==
    /\ pc[p] = "idle"
    /\ nextUser + UsersInFlight < MaxUsers
    /\ nextSession + SessionsInFlight < MaxSessions
    /\ Goto(p, "su_lookup")
    /\ loc' = [loc EXCEPT ![p] = [NoLocals EXCEPT !.data = data]]
    /\ quiet' = Begin(p)
    /\ ret' = Keep(p)
    /\ UNCHANGED <<users, sessions, lsSession, cookie, now, nextUser, nextSession>>
    /\ UNCHANGED orgVars

\* await db.users.where('email').equals(email.toLowerCase()).first();
\* await hashPassword(password), which touches nothing shared; the User
\* literal; db.users.add is issued
SignUpLookup(p) ==
    /\ pc[p] = "su_lookup"
    /\ IF ExistingUsers(loc[p].data) # {}
         THEN /\ Return(p, Result("signUp", loc[p].data, "Email already registered", <<>>, "duplicate"))
              /\ UNCHANGED nextUser
         ELSE /\ Goto(p, "su_addUser")
              /\ loc' = [loc EXCEPT ![p].user = << NewUser(nextUser + 1, loc[p].data, now) >>]
              /\ nextUser' = nextUser + 1
              /\ ret' = Keep(p)
    /\ quiet' = Disturb(p)
    /\ UNCHANGED <<users, sessions, lsSession, cookie, now, nextSession>>
    /\ UNCHANGED orgVars

\* await db.users.add(user); the Session literal; db.sessions.add is issued
SignUpAddUser(p) ==
    /\ pc[p] = "su_addUser"
    /\ users' = AddUser(users, loc[p].user[1])
    /\ Goto(p, "su_addSession")
    /\ loc' = [loc EXCEPT ![p].session =
                  << NewSession(nextSession + 1, loc[p].user[1].id, now) >>]
    /\ nextSession' = nextSession + 1
    /\ quiet' = Disturb(p)
    /\ ret' = Keep(p)
    /\ UNCHANGED <<sessions, lsSession, cookie, now, nextUser>>
    /\ UNCHANGED orgVars

\* await db.sessions.add(session); setSessionRef; return { user, session }
SignUpAddSession(p) ==
    /\ pc[p] = "su_addSession"
    /\ sessions' = AddSession(sessions, loc[p].session[1])
    /\ lsSession' = SavedSessionRef(SessionRefOf(loc[p].session[1]))
    /\ cookie' = AuthCookie(loc[p].session[1].token, 7, now)
    /\ Return(p, Result("signUp", loc[p].data, "",
                        << [user |-> loc[p].user[1], session |-> loc[p].session[1]] >>,
                        "ok"))
    /\ quiet' = Disturb(p)
    /\ UNCHANGED <<users, now, nextUser, nextSession>>
    /\ UNCHANGED orgVars

-----------------------------------------------------------------------------
(* signInEmail *)

SignInCall(p, data) ==
    /\ pc[p] = "idle"
    /\ nextSession + SessionsInFlight < MaxSessions
    /\ Goto(p, "si_lookup")
    /\ loc' = [loc EXCEPT ![p] = [NoLocals EXCEPT !.data = data]]
    /\ quiet' = Begin(p)
    /\ ret' = Keep(p)
    /\ UNCHANGED <<users, sessions, lsSession, cookie, now, nextUser, nextSession>>
    /\ UNCHANGED orgVars

\* await db.users.where('email').equals(email.toLowerCase()).first()
\* (with several rows under one key, the first in key order; the keys are random);
\* await hashPassword(password), which touches nothing shared; the comparison;
\* the Session literal; db.sessions.add is issued
SignInLookup(p) ==
    /\ pc[p] = "si_lookup"
    /\ LET found == UsersByEmail(ToLowerCase(loc[p].data.email)) IN
         IF found = {}
           THEN /\ Return(p, Result("signIn", loc[p].data, "Invalid email or password", <<>>,
                                    "no-user"))
                /\ UNCHANGED nextSession
           ELSE \E u \in found :
                  IF ~PasswordMatches(u, loc[p].data.password)
                    THEN /\ Return(p, Result("signIn", loc[p].data,
                                             "Invalid email or password", <<>>, "password"))
                         /\ UNCHANGED nextSession
                    ELSE /\ Goto(p, "si_addSession")
                         /\ loc' = [loc EXCEPT ![p].user = << u >>,
                                               ![p].session =
                                                  << NewSession(nextSession + 1, u.id, now) >>]
                         /\ nextSession' = nextSession + 1
                         /\ ret' = Keep(p)
    /\ quiet' = Disturb(p)
    /\ UNCHANGED <<users, sessions, lsSession, cookie, now, nextUser>>
    /\ UNCHANGED orgVars

\* await db.sessions.add(session); setSessionRef; return { user, session }
SignInAddSession(p) ==
    /\ pc[p] = "si_addSession"
    /\ sessions' = AddSession(sessions, loc[p].session[1])
    /\ lsSession' = SavedSessionRef(SessionRefOf(loc[p].session[1]))
    /\ cookie' = AuthCookie(loc[p].session[1].token, 7, now)
    /\ Return(p, Result("signIn", loc[p].data, "",
                        << [user |-> loc[p].user[1], session |-> loc[p].session[1]] >>,
                        "ok"))
    /\ quiet' = Disturb(p)
    /\ UNCHANGED <<users, now, nextUser, nextSession>>
    /\ UNCHANGED orgVars

-----------------------------------------------------------------------------
(* signOut *)

SignOutCall(p) ==
    /\ pc[p] = "idle"
    /\ Goto(p, "so_call")
    /\ quiet' = Begin(p)
    /\ ret' = Keep(p)
    /\ UNCHANGED <<users, sessions, lsSession, cookie, now, nextUser, nextSession, loc>>
    /\ UNCHANGED orgVars

\* const sessionRef = getSessionRef(); db.sessions.delete is issued when it is set,
\* otherwise clearSessionRef() and the return follow at once
SignOutRead(p) ==
    /\ pc[p] = "so_call"
    /\ IF Len(lsSession) = 1
         THEN /\ Goto(p, "so_delete")
              /\ loc' = [loc EXCEPT ![p].ref = lsSession]
              /\ ret' = Keep(p)
              /\ UNCHANGED <<lsSession, cookie>>
         ELSE /\ lsSession' = RemovedSessionRef
              /\ cookie' = ClearedCookie
              /\ Return(p, Result("signOut", NoData, "", <<>>, "no-ref"))
    /\ quiet' = Disturb(p)
    /\ UNCHANGED <<users, sessions, now, nextUser, nextSession>>
    /\ UNCHANGED orgVars

\* await db.sessions.delete(sessionRef.sessionId); clearSessionRef()
SignOutDelete(p) ==
    /\ pc[p] = "so_delete"
    /\ sessions' = DeleteSession(sessions, loc[p].ref[1].sessionId)
    /\ lsSession' = RemovedSessionRef
    /\ cookie' = ClearedCookie
    /\ Return(p, Result("signOut", NoData, "", <<>>, "deleted"))
    /\ quiet' = Disturb(p)
    /\ UNCHANGED <<users, now, nextUser, nextSession>>
    /\ UNCHANGED orgVars

-----------------------------------------------------------------------------
(* getSession *)

GetSessionCall(p) ==
    /\ pc[p] = "idle"
    /\ Goto(p, "gs_call")
    /\ quiet' = Begin(p)
    /\ ret' = Keep(p)
    /\ UNCHANGED <<users, sessions, lsSession, cookie, now, nextUser, nextSession, loc>>
    /\ UNCHANGED orgVars

\* const sessionRef = getSessionRef(); if (!sessionRef) return null;
\* db.sessions.get is issued
GetSessionRead(p) ==
    /\ pc[p] = "gs_call"
    /\ IF Len(lsSession) = 0
         THEN Return(p, Result("getSession", NoData, "", <<>>, "no-ref"))
         ELSE /\ Goto(p, "gs_get")
              /\ loc' = [loc EXCEPT ![p].ref = lsSession]
              /\ ret' = Keep(p)
    /\ quiet' = Disturb(p)
    /\ UNCHANGED <<users, sessions, lsSession, cookie, now, nextUser, nextSession>>
    /\ UNCHANGED orgVars

\* await db.sessions.get(sessionRef.sessionId); the row, token and expiry checks
GetSessionGet(p) ==
    /\ pc[p] = "gs_get"
    /\ LET found == SessionsById(loc[p].ref[1].sessionId) IN
         IF found = {} \/ (\E s \in found : ~TokenMatches(s, loc[p].ref[1]))
           THEN /\ lsSession' = RemovedSessionRef
                /\ cookie' = ClearedCookie
                /\ Return(p, Result("getSession", NoData, "", <<>>,
                                    IF found = {} THEN "no-row" ELSE "token"))
           ELSE /\ \E s \in found :
                     /\ loc' = [loc EXCEPT ![p].session = << s >>]
                     /\ IF IsExpired(s, now)
                          THEN Goto(p, "gs_delExpired")
                          ELSE Goto(p, "gs_user")
                /\ ret' = Keep(p)
                /\ UNCHANGED <<lsSession, cookie>>
    /\ quiet' = Disturb(p)
    /\ UNCHANGED <<users, sessions, now, nextUser, nextSession>>
    /\ UNCHANGED orgVars

\* await db.sessions.delete(session.id); clearSessionRef(); return null
\* (the expired branch and the missing-user branch)
GetSessionDelete(p) ==
    /\ pc[p] \in {"gs_delExpired", "gs_delOrphan"}
    /\ sessions' = DeleteSession(sessions, loc[p].session[1].id)
    /\ lsSession' = RemovedSessionRef
    /\ cookie' = ClearedCookie
    /\ Return(p, Result("getSession", NoData, "", <<>>,
                        IF pc[p] = "gs_delExpired" THEN "expired" ELSE "no-user"))
    /\ quiet' = Disturb(p)
    /\ UNCHANGED <<users, now, nextUser, nextSession>>
    /\ UNCHANGED orgVars

\* await db.users.get(session.userId); the cookie refresh; the return value
GetSessionUser(p) ==
    /\ pc[p] = "gs_user"
    /\ LET found == UsersById(loc[p].session[1].userId) IN
         IF found = {}
           THEN /\ Goto(p, "gs_delOrphan")
                /\ ret' = Keep(p)
                /\ UNCHANGED <<cookie, loc>>
           ELSE /\ cookie' = AuthCookie(loc[p].session[1].token, 7, now)
                /\ \E u \in found :
                     Return(p, Result("getSession", NoData, "",
                                      << SessionDataOf(u, loc[p].session[1]) >>, "ok"))
    /\ quiet' = Disturb(p)
    /\ UNCHANGED <<users, sessions, lsSession, now, nextUser, nextSession>>
    /\ UNCHANGED orgVars

-----------------------------------------------------------------------------
(* deleteUserByEmail *)

\* db.members.where('userId').equals(user.id).delete()
DeleteMembersOfUser(table, userId) == {m \in table : m.userId # userId}

DeleteUserCall(p, data) ==
    /\ pc[p] = "idle"
    /\ Goto(p, "du_lookup")
    /\ loc' = [loc EXCEPT ![p] = [NoLocals EXCEPT !.data = data]]
    /\ quiet' = Begin(p)
    /\ ret' = Keep(p)
    /\ UNCHANGED <<users, sessions, lsSession, cookie, now, nextUser, nextSession>>
    /\ UNCHANGED orgVars

\* await db.users.where('email').equals(email.toLowerCase()).first()
DeleteUserLookup(p) ==
    /\ pc[p] = "du_lookup"
    /\ LET found == UsersByEmail(ToLowerCase(loc[p].data.email)) IN
         IF found = {}
           THEN Return(p, Result("deleteUserByEmail", loc[p].data, "", <<>>, "no-user"))
           ELSE /\ \E u \in found : loc' = [loc EXCEPT ![p].user = << u >>]
                /\ Goto(p, "du_txn")
                /\ ret' = Keep(p)
    /\ quiet' = Disturb(p)
    /\ UNCHANGED <<users, sessions, lsSession, cookie, now, nextUser, nextSession>>
    /\ UNCHANGED orgVars

\* await db.transaction('rw', [users, sessions, members], ...): one atomic step
\* deleting the user's sessions, the user's memberships and the user
DeleteUserTxn(p) ==
    /\ pc[p] = "du_txn"
    /\ sessions' = {s \in sessions : s.userId # loc[p].user[1].id}
    /\ members' = DeleteMembersOfUser(members, loc[p].user[1].id)
    /\ users' = {u \in users : u.id # loc[p].user[1].id}
    /\ Return(p, Result("deleteUserByEmail", loc[p].data, "", <<>>, "deleted"))
    /\ quiet' = Disturb(p)
    /\ UNCHANGED <<lsSession, cookie, now, nextUser, nextSession, orgs, nextOrg>>

-----------------------------------------------------------------------------
(* Organizations *)

MaxOrgs == 2

RandomOrgId(n) == <<"org", n>>
RandomMemberId(n) == <<"mem", n>>

\* CreateOrgData and the userId argument of createOrganization
CreateOrgInputs(userIds) ==
    [name : {"Firm"}, slug : {"a", "b"}, logo : {<<>>}, userId : userIds]

\* the Organization literal of createOrganization
NewOrganization(n, data, t) ==
    [id |-> RandomOrgId(n),
     name |-> data.name,
     slug |-> data.slug,
     logo |-> data.logo,
     createdAt |-> t]

\* the Member literal of createOrganization
NewMember(n, userId, organizationId, t) ==
    [id |-> RandomMemberId(n),
     userId |-> userId,
     organizationId |-> organizationId,
     role |-> "owner",
     createdAt |-> t]

\* variant of WithActiveOrg: the reference is written back as it was read
WithActiveOrgDropped(r, orgId) == r

\* { ...sessionRef, activeOrgId: orgId }
WithActiveOrg(r, orgId) ==
    [f \in (DOMAIN r) \cup {"activeOrgId"} |->
        IF f = "activeOrgId" THEN orgId ELSE r[f]]

\* sessionRef?.activeOrgId, as an optional value
ActiveOrgIdOf(ref) ==
    IF Len(ref) = 1 /\ "activeOrgId" \in DOMAIN ref[1]
      THEN << ref[1].activeOrgId >>
      ELSE << >>

\* db.organizations.where('slug').equals(slug) / db.organizations.get(id)
OrgsBySlug(slug) == {o \in orgs : o.slug = slug}
OrgsById(id) == {o \in orgs : o.id = id}

\* createOrganization calls under way that have yet to draw their ids
OrgsInFlight == Cardinality({q \in Threads : pc[q] = "co_lookup"})

CreateOrgCall(p, data) ==
    /\ pc[p] = "idle"
    /\ nextOrg + OrgsInFlight < MaxOrgs
    /\ Goto(p, "co_lookup")
    /\ loc' = [loc EXCEPT ![p] = [NoLocals EXCEPT !.data = data]]
    /\ quiet' = Begin(p)
    /\ ret' = Keep(p)
    /\ UNCHANGED <<users, sessions, lsSession, cookie, now, nextUser, nextSession>>
    /\ UNCHANGED orgVars

\* await db.organizations.where('slug').equals(data.slug).first(); the
\* Organization literal; db.organizations.add is issued
CreateOrgLookup(p) ==
    /\ pc[p] = "co_lookup"
    /\ IF OrgsBySlug(loc[p].data.slug) # {}
         THEN /\ Return(p, Result("createOrganization", loc[p].data,
                                  "Organization slug already taken", <<>>, "slug"))
              /\ UNCHANGED nextOrg
         ELSE /\ Goto(p, "co_addOrg")
              /\ loc' = [loc EXCEPT ![p].org =
                            << NewOrganization(nextOrg + 1, loc[p].data, now) >>]
              /\ nextOrg' = nextOrg + 1
              /\ ret' = Keep(p)
    /\ quiet' = Disturb(p)
    /\ UNCHANGED <<users, sessions, lsSession, cookie, now, nextUser, nextSession>>
    /\ UNCHANGED <<orgs, members>>

\* await db.organizations.add(org); the Member literal; db.members.add is issued
CreateOrgAddOrg(p) ==
    /\ pc[p] = "co_addOrg"
    /\ orgs' = orgs \cup {loc[p].org[1]}
    /\ Goto(p, "co_addMember")
    /\ quiet' = Disturb(p)
    /\ ret' = Keep(p)
    /\ UNCHANGED <<users, sessions, lsSession, cookie, now, nextUser, nextSession, loc>>
    /\ UNCHANGED <<members, nextOrg>>

\* await db.members.add(member); the organization becomes the active one when
\* a SessionReference is stored; return org
CreateOrgAddMember(p) ==
    /\ pc[p] = "co_addMember"
    /\ LET org == loc[p].org[1] IN
         /\ members' = members \cup
                {NewMember(org.id[2], loc[p].data.userId, org.id, now)}
         /\ IF Len(lsSession) = 1
              THEN /\ lsSession' = SavedSessionRef(WithActiveOrg(lsSession[1], org.id))
                   /\ cookie' = AuthCookie(lsSession[1].token, 7, now)
              ELSE UNCHANGED <<lsSession, cookie>>
         /\ Return(p, Result("createOrganization", loc[p].data, "", << org >>, "ok"))
    /\ quiet' = Disturb(p)
    /\ UNCHANGED <<users, sessions, now, nextUser, nextSession>>
    /\ UNCHANGED <<orgs, nextOrg>>

\* setActiveOrganization(orgId)
SetActiveOrgCall(p, orgId) ==
    /\ pc[p] = "idle"
    /\ Goto(p, "sa_call")
    /\ loc' = [loc EXCEPT ![p] = [NoLocals EXCEPT !.data = [orgId |-> orgId]]]
    /\ quiet' = Begin(p)
    /\ ret' = Keep(p)
    /\ UNCHANGED <<users, sessions, lsSession, cookie, now, nextUser, nextSession>>
    /\ UNCHANGED orgVars

\* const sessionRef = getSessionRef(); if (sessionRef) setSessionRef({...})
SetActiveOrgWrite(p) ==
    /\ pc[p] = "sa_call"
    /\ IF Len(lsSession) = 1
         THEN /\ lsSession' = SavedSessionRef(WithActiveOrg(lsSession[1], loc[p].data.orgId))
              /\ cookie' = AuthCookie(lsSession[1].token, 7, now)
         ELSE UNCHANGED <<lsSession, cookie>>
    /\ Return(p, Result("setActiveOrganization", loc[p].data, "", <<>>,
                        IF Len(lsSession) = 1 THEN "ok" ELSE "no-ref"))
    /\ quiet' = Disturb(p)
    /\ UNCHANGED <<users, sessions, now, nextUser, nextSession>>
    /\ UNCHANGED orgVars

GetActiveOrgCall(p) ==
    /\ pc[p] = "idle"
    /\ Goto(p, "ga_call")
    /\ quiet' = Begin(p)
    /\ ret' = Keep(p)
    /\ UNCHANGED <<users, sessions, lsSession, cookie, now, nextUser, nextSession, loc>>
    /\ UNCHANGED orgVars

\* const sessionRef = getSessionRef(); if (!sessionRef?.activeOrgId) return null;
\* db.organizations.get is issued
GetActiveOrgRead(p) ==
    /\ pc[p] = "ga_call"
    /\ IF ActiveOrgIdOf(lsSession) = <<>>
         THEN Return(p, Result("getActiveOrganization", NoData, "", <<>>, "no-active"))
         ELSE /\ Goto(p, "ga_get")
              /\ loc' = [loc EXCEPT ![p].ref = lsSession]
              /\ ret' = Keep(p)
    /\ quiet' = Disturb(p)
    /\ UNCHANGED <<users, sessions, lsSession, cookie, now, nextUser, nextSession>>
    /\ UNCHANGED orgVars

\* return (await db.organizations.get(sessionRef.activeOrgId)) || null
GetActiveOrgGet(p) ==
    /\ pc[p] = "ga_get"
    /\ LET found == OrgsById(loc[p].ref[1].activeOrgId) IN
         IF found = {}
           THEN Return(p, Result("getActiveOrganization", NoData, "", <<>>, "no-row"))
           ELSE \E o \in found :
                  Return(p, Result("getActiveOrganization", NoData, "", << o >>, "ok"))
    /\ quiet' = Disturb(p)
    /\ UNCHANGED <<users, sessions, lsSession, cookie, now, nextUser, nextSession>>
    /\ UNCHANGED orgVars

-----------------------------------------------------------------------------
(* getOrganizations *)

\* memberships.map((m) => m.organizationId), in the order of the member ids
RECURSIVE OrgIdsOf(_)
OrgIdsOf(ms) ==
    IF ms = {} THEN << >>
    ELSE LET m == CHOOSE x \in ms : \A y \in ms : x.id[2] <= y.id[2]
         IN  << m.organizationId >> \o OrgIdsOf(ms \ {m})

\* if (org) orgs.push(org), for the organization with the first id left
RowsAfterGet(p) ==
    LET found == OrgsById(Head(loc[p].orgIds))
    IN  IF found = {} THEN loc[p].rows
        ELSE Append(loc[p].rows, CHOOSE o \in found : TRUE)

GetOrgsCall(p, userId) ==
    /\ pc[p] = "idle"
    /\ Goto(p, "go_members")
    /\ loc' = [loc EXCEPT ![p] = [NoLocals EXCEPT !.data = [userId |-> userId]]]
    /\ quiet' = Begin(p)
    /\ ret' = Keep(p)
    /\ UNCHANGED <<users, sessions, lsSession, cookie, now, nextUser, nextSession>>
    /\ UNCHANGED orgVars

\* await db.members.where('userId').equals(userId).toArray(); the first
\* db.organizations.get is issued, or the empty list is returned
GetOrgsMembers(p) ==
    /\ pc[p] = "go_members"
    /\ LET orgIds == OrgIdsOf({m \in members : m.userId = loc[p].data.userId}) IN
         IF orgIds = <<>>
           THEN Return(p, Result("getOrganizations", loc[p].data, "", << <<>> >>, "none"))
           ELSE /\ Goto(p, "go_rows")
                /\ loc' = [loc EXCEPT ![p].orgIds = orgIds]
                /\ ret' = Keep(p)
    /\ quiet' = Disturb(p)
    /\ UNCHANGED <<users, sessions, lsSession, cookie, now, nextUser, nextSession>>
    /\ UNCHANGED orgVars

\* await db.organizations.get(id); if (org) orgs.push(org); the next get is
\* issued, or the list is returned
GetOrgsRow(p) ==
    /\ pc[p] = "go_rows"
    /\ IF Len(loc[p].orgIds) = 1
         THEN Return(p, Result("getOrganizations", loc[p].data, "", << RowsAfterGet(p) >>, "ok"))
         ELSE /\ loc' = [loc EXCEPT ![p].orgIds = Tail(loc[p].orgIds),
                                    ![p].rows = RowsAfterGet(p)]
              /\ UNCHANGED pc
              /\ ret' = Keep(p)
    /\ quiet' = Disturb(p)
    /\ UNCHANGED <<users, sessions, lsSession, cookie, now, nextUser, nextSession>>
    /\ UNCHANGED orgVars

-----------------------------------------------------------------------------
(* Debug / admin utilities *)

\* variant of ClearedTable: the rows are kept
ClearedTableKept(table) == table

\* table.clear()
ClearedTable(table) == {}

\* variant of SafeUsers: the rows are returned as stored
SafeUsersRaw(rows) == rows

\* users.map(({ passwordHash: _, ...user }) => user)
SafeUsers(rows) == {SafeUser(u) : u \in rows}

ListAllUsersCall(p) ==
    /\ pc[p] = "idle"
    /\ Goto(p, "lu_call")
    /\ quiet' = Begin(p)
    /\ ret' = Keep(p)
    /\ UNCHANGED <<users, sessions, lsSession, cookie, now, nextUser, nextSession, loc>>
    /\ UNCHANGED orgVars

\* await db.users.toArray(); the rows without their passwordHash
ListAllUsersRead(p) ==
    /\ pc[p] = "lu_call"
    /\ Return(p, Result("listAllUsers", NoData, "", << SafeUsers(users) >>, "ok"))
    /\ quiet' = Disturb(p)
    /\ UNCHANGED <<users, sessions, lsSession, cookie, now, nextUser, nextSession>>
    /\ UNCHANGED orgVars

ClearAllSessionsCall(p) ==
    /\ pc[p] = "idle"
    /\ Goto(p, "cs_call")
    /\ quiet' = Begin(p)
    /\ ret' = Keep(p)
    /\ UNCHANGED <<users, sessions, lsSession, cookie, now, nextUser, nextSession, loc>>
    /\ UNCHANGED orgVars

\* await db.sessions.clear(); clearSessionRef()
ClearAllSessionsClear(p) ==
    /\ pc[p] = "cs_call"
    /\ sessions' = ClearedTable(sessions)
    /\ lsSession' = RemovedSessionRef
    /\ cookie' = ClearedCookie
    /\ Return(p, Result("clearAllSessions", NoData, "", <<>>, "ok"))
    /\ quiet' = Disturb(p)
    /\ UNCHANGED <<users, now, nextUser, nextSession>>
    /\ UNCHANGED orgVars

ClearAllAuthDataCall(p) ==
    /\ pc[p] = "idle"
    /\ Goto(p, "ca_call")
    /\ quiet' = Begin(p)
    /\ ret' = Keep(p)
    /\ UNCHANGED <<users, sessions, lsSession, cookie, now, nextUser, nextSession, loc>>
    /\ UNCHANGED orgVars

\* await db.transaction('rw', [users, sessions, organizations, members], ...):
\* one atomic step clearing the four tables; clearSessionRef()
ClearAllAuthDataTxn(p) ==
    /\ pc[p] = "ca_call"
    /\ sessions' = ClearedTable(sessions)
    /\ members' = ClearedTable(members)
    /\ orgs' = ClearedTable(orgs)
    /\ users' = ClearedTable(users)
    /\ lsSession' = RemovedSessionRef
    /\ cookie' = ClearedCookie
    /\ Return(p, Result("clearAllAuthData", NoData, "", <<>>, "ok"))
    /\ quiet' = Disturb(p)
    /\ UNCHANGED <<now, nextUser, nextSession, nextOrg>>

-----------------------------------------------------------------------------
(* validateSessionSync *)

\* new Date(session.expiresAt) > new Date()
NotExpired(session, t) == session.expiresAt > t

\* details after the reference was read
DetailsOfRef(ref) ==
    [hasLocalStorageRef |-> Len(ref) = 1,
     sessionId |-> IF Len(ref) = 1 THEN << ref[1].sessionId >> ELSE << >>]

\* details after db.sessions.get: found is the set holding the row, if any
DetailsOfSession(details, found, r, t) ==
    [f \in (DOMAIN details) \cup {"hasIndexedDBSession", "tokenMatch", "notExpired"} |->
        CASE f = "hasIndexedDBSession" -> found # {}
          [] f = "tokenMatch" -> \E x \in found : x.token = r.token
          [] f = "notExpired" -> \E x \in found : NotExpired(x, t)
          [] OTHER -> details[f]]

\* details.hasUser = !!user
DetailsOfUser(details, hasUser) ==
    [f \in (DOMAIN details) \cup {"hasUser"} |->
        IF f = "hasUser" THEN hasUser ELSE details[f]]

\* const valid = !!session && session.token === sessionRef.token
\*               && new Date(session.expiresAt) > new Date()
ValidOf(found, r, t) == \E x \in found : x.token = r.token /\ NotExpired(x, t)

ValidateCall(p) ==
    /\ pc[p] = "idle"
    /\ Goto(p, "vs_call")
    /\ quiet' = Begin(p)
    /\ ret' = Keep(p)
    /\ UNCHANGED <<users, sessions, lsSession, cookie, now, nextUser, nextSession, loc>>
    /\ UNCHANGED orgVars

\* const sessionRef = getSessionRef(); details; if (!sessionRef) return;
\* db.sessions.get is issued
ValidateRead(p) ==
    /\ pc[p] = "vs_call"
    /\ IF Len(lsSession) = 0
         THEN Return(p, Result("validateSessionSync", NoData, "",
                               << [valid |-> FALSE, details |-> DetailsOfRef(lsSession)] >>,
                               "no-ref"))
         ELSE /\ Goto(p, "vs_get")
              /\ loc' = [loc EXCEPT ![p].ref = lsSession,
                                    ![p].details = << DetailsOfRef(lsSession) >>]
              /\ ret' = Keep(p)
    /\ quiet' = Disturb(p)
    /\ UNCHANGED <<users, sessions, lsSession, cookie, now, nextUser, nextSession>>
    /\ UNCHANGED orgVars

\* variant of ValidateGet: a failed check clears the stored reference, as
\* getSession does
ValidateGetClearing(p) ==
    /\ pc[p] = "vs_get"
    /\ LET r == loc[p].ref[1]
           found == SessionsById(r.sessionId)
           details == DetailsOfSession(loc[p].details[1], found, r, now)
       IN  IF found = {}
             THEN /\ Return(p, Result("validateSessionSync", NoData, "",
                                      << [valid |-> FALSE, details |-> details] >>, "no-row"))
                  /\ lsSession' = RemovedSessionRef
                  /\ cookie' = ClearedCookie
             ELSE /\ Goto(p, "vs_user")
                  /\ loc' = [loc EXCEPT ![p].session = << CHOOSE x \in found : TRUE >>,
                                        ![p].details = << details >>]
                  /\ ret' = Keep(p)
                  /\ UNCHANGED <<lsSession, cookie>>
    /\ quiet' = Disturb(p)
    /\ UNCHANGED <<users, sessions, now, nextUser, nextSession>>
    /\ UNCHANGED orgVars

\* await db.sessions.get(sessionRef.sessionId); hasIndexedDBSession, tokenMatch,
\* notExpired; with a row, db.users.get is issued; without one valid is false
ValidateGet(p) ==
    /\ pc[p] = "vs_get"
    /\ LET r == loc[p].ref[1]
           found == SessionsById(r.sessionId)
           details == DetailsOfSession(loc[p].details[1], found, r, now)
       IN  IF found = {}
             THEN Return(p, Result("validateSessionSync", NoData, "",
                                   << [valid |-> ValidOf(found, r, now),
                                       details |-> details] >>, "no-row"))
             ELSE /\ Goto(p, "vs_user")
                  /\ loc' = [loc EXCEPT ![p].session = << CHOOSE x \in found : TRUE >>,
                                        ![p].details = << details >>]
                  /\ ret' = Keep(p)
    /\ quiet' = Disturb(p)
    /\ UNCHANGED <<users, sessions, lsSession, cookie, now, nextUser, nextSession>>
    /\ UNCHANGED orgVars

\* await db.users.get(session.userId); hasUser; valid; return { valid, details }
ValidateUser(p) ==
    /\ pc[p] = "vs_user"
    /\ LET x == loc[p].session[1]
           hasUser == UsersById(x.userId) # {}
       IN  Return(p, Result("validateSessionSync", NoData, "",
                            << [valid |-> ValidOf({x}, loc[p].ref[1], now),
                                details |-> DetailsOfUser(loc[p].details[1], hasUser)] >>,
                            "checked"))
    /\ quiet' = Disturb(p)
    /\ UNCHANGED <<users, sessions, lsSession, cookie, now, nextUser, nextSession>>
    /\ UNCHANGED orgVars

-----------------------------------------------------------------------------
(* The environment *)

\* The environment acts between calls, while no tab is inside one.
AllIdle == \A p \in Threads : pc[p] = "idle"

\* Time passes: one millisecond less than the lifetime of a session, exactly
\* that lifetime, or one millisecond more.
Tick(d) ==
    /\ AllIdle
    /\ now \div (SevenDaysMs - 1) < MaxJumps
    /\ now' = now + d
    /\ quiet' = 0
    /\ ret' = NoResult
    /\ UNCHANGED <<users, sessions, lsSession, cookie, nextUser, nextSession, pc, loc>>
    /\ UNCHANGED orgVars

\* The stored SessionReference is edited by hand (developer tools): its token
\* no longer is the token of the Session row.
ForgedToken == <<"tok", 0>>

CorruptSessionRef ==
    /\ AllIdle
    /\ Len(lsSession) = 1
    /\ lsSession[1].token # ForgedToken
    /\ lsSession' = << [lsSession[1] EXCEPT !.token = ForgedToken] >>
    /\ quiet' = 0
    /\ ret' = NoResult
    /\ UNCHANGED <<users, sessions, cookie, now, nextUser, nextSession, pc, loc>>
    /\ UNCHANGED orgVars

-----------------------------------------------------------------------------

TabStep(p) ==
    \/ \E data \in SignUpInputs : SignUpCall(p, data)
    \/ SignUpLookup(p)
    \/ SignUpAddUser(p)
    \/ SignUpAddSession(p)
    \/ \E data \in SignInInputs : SignInCall(p, data)
    \/ SignInLookup(p)
    \/ SignInAddSession(p)
    \/ SignOutCall(p)
    \/ SignOutRead(p)
    \/ SignOutDelete(p)
    \/ GetSessionCall(p)
    \/ GetSessionRead(p)
    \/ GetSessionGet(p)
    \/ GetSessionDelete(p)
    \/ GetSessionUser(p)
    \/ \E data \in EmailOnlyInputs : DeleteUserCall(p, data)
    \/ DeleteUserLookup(p)
    \/ DeleteUserTxn(p)

\* No AuthProvider is mounted here: the functions are called directly.
Next ==
    /\ \/ \E p \in Tabs : TabStep(p)
       \/ \E d \in {SevenDaysMs - 1, SevenDaysMs, SevenDaysMs + 1} : Tick(d)
       \/ CorruptSessionRef
    /\ UNCHANGED <<ctxVars, dataVars>>

Spec == Init /\ [][Next]_vars

-----------------------------------------------------------------------------
(* The organization and admin functions beside sign-up, sign-out and user     *)
(* deletion.  The observed tab runs all of them; the other tab signs out and  *)
(* deletes users beside it.                                                   *)

OrgSignUpInputs ==
    [email : { <<"J">>, <<"n">> }, password : {"hunter22"}, name : {"Jane Doe"}]

\* an id that no organization has
UnknownOrgId == <<"org", 0>>

OtherTabStep(p) ==
    \/ SignOutCall(p)
    \/ SignOutRead(p)
    \/ SignOutDelete(p)
    \/ \E data \in EmailOnlyInputs : DeleteUserCall(p, data)
    \/ DeleteUserLookup(p)
    \/ DeleteUserTxn(p)

OrgTabStep(p) ==
    \/ \E data \in OrgSignUpInputs : SignUpCall(p, data)
    \/ SignUpLookup(p)
    \/ SignUpAddUser(p)
    \/ SignUpAddSession(p)
    \/ OtherTabStep(p)
    \/ \E data \in CreateOrgInputs({u.id : u \in users}) : CreateOrgCall(p, data)
    \/ CreateOrgLookup(p)
    \/ CreateOrgAddOrg(p)
    \/ CreateOrgAddMember(p)
    \/ \E id \in {o.id : o \in orgs} \cup {UnknownOrgId} : SetActiveOrgCall(p, id)
    \/ SetActiveOrgWrite(p)
    \/ GetActiveOrgCall(p)
    \/ GetActiveOrgRead(p)
    \/ GetActiveOrgGet(p)
    \/ ListAllUsersCall(p)
    \/ ListAllUsersRead(p)
    \/ ClearAllSessionsCall(p)
    \/ ClearAllSessionsClear(p)
    \/ ClearAllAuthDataCall(p)
    \/ ClearAllAuthDataTxn(p)

OrgNext ==
    /\ \/ OrgTabStep(Observed)
       \/ \E p \in Tabs \ {Observed} : OtherTabStep(p)
    /\ UNCHANGED <<ctxVars, dataVars>>

SpecOrg == Init /\ [][OrgNext]_vars

-----------------------------------------------------------------------------
(* The diagnostic validateSessionSync beside getSession: the observed tab     *)
(* signs up, signs in, reads its session and validates it, while the other    *)
(* tab signs out and deletes users, the clock advances and the stored         *)
(* reference is edited.                                                       *)

ValidateStep(p) ==
    \/ \E data \in OrgSignUpInputs : SignUpCall(p, data)
    \/ SignUpLookup(p)
    \/ SignUpAddUser(p)
    \/ SignUpAddSession(p)
    \/ \E data \in SignInInputs : SignInCall(p, data)
    \/ SignInLookup(p)
    \/ SignInAddSession(p)
    \/ GetSessionCall(p)
    \/ GetSessionRead(p)
    \/ GetSessionGet(p)
    \/ GetSessionDelete(p)
    \/ GetSessionUser(p)
    \/ ValidateCall(p)
    \/ ValidateRead(p)
    \/ ValidateGet(p)
    \/ ValidateUser(p)

ValidateNext ==
    /\ \/ ValidateStep(Observed)
       \/ \E p \in Tabs \ {Observed} : OtherTabStep(p)
       \/ \E d \in {SevenDaysMs - 1, SevenDaysMs, SevenDaysMs + 1} : Tick(d)
       \/ CorruptSessionRef
    /\ UNCHANGED <<ctxVars, dataVars>>

SpecValidate == Init /\ [][ValidateNext]_vars

-----------------------------------------------------------------------------
(* The AuthProvider (src/lib/auth/auth-context.tsx), mounted in the window of *)
(* tab "B".  An activation of that window runs one context function at a      *)
(* time; task tells which one, where it stands between its awaits, and the    *)
(* user id it holds in a local variable.  The call it awaits runs under pc.   *)

MaxEvents == 2

Free(p) == pc[p] = "idle" /\ task[p].fn = "none"

\* the Error that the awaited signInEmail / signUpEmail rejects with in the step
\* that ends it: both throw before their first write and nowhere else
SignInError(p) ==
    IF pc[p] = "si_lookup" THEN << "Invalid email or password" >> ELSE << >>
SignUpError(p) ==
    IF pc[p] = "su_lookup" THEN << "Email already registered" >> ELSE << >>

\* variant of MessageOf: the fallback text whatever was caught
MessageOfFallback(err, fallback) == fallback

\* const message = err instanceof Error ? err.message : fallback
MessageOf(err, fallback) == IF err # << >> THEN err[1] ELSE fallback

\* what the awaited getSession resolves to in the step that ends it
LoadedSession(p) ==
    IF pc[p] = "gs_user" /\ UsersById(loc[p].session[1].userId) # {}
      THEN << SessionDataOf(CHOOSE u \in UsersById(loc[p].session[1].userId) : TRUE,
                            loc[p].session[1]) >>
      ELSE << >>

\* what the awaited getOrganizations / getActiveOrganization resolve to
LoadedOrganizations(p) ==
    IF pc[p] = "go_rows" THEN RowsAfterGet(p) ELSE << >>
LoadedActiveOrganization(p) ==
    IF pc[p] = "ga_get" /\ OrgsById(loc[p].ref[1].activeOrgId) # {}
      THEN << CHOOSE o \in OrgsById(loc[p].ref[1].activeOrgId) : TRUE >>
      ELSE << >>

\* setSession({ user: result.user, session: result.session })
SignedInSession(p) ==
    << [user |-> loc[p].user[1], session |-> loc[p].session[1]] >>

\* variant of Finally: isLoading is left as it is
FinallyKept(c) == c

\* finally { setIsLoading(false) }
Finally(c) == [c EXCEPT !.isLoading = FALSE]

\* useEffect on mount: loadSession() is called and the listener is registered
CtxMount(p) ==
    /\ ~ctx.mounted
    /\ Free(p)
    /\ GetSessionCall(p)
    /\ ctx' = [ctx EXCEPT !.mounted = TRUE]
    /\ task' = [task EXCEPT ![p] = Task("load", "session", <<>>)]
    /\ UNCHANGED events

\* variant of CtxStorageEvent: the listener takes the event and loads nothing
CtxStorageEventIgnored(p) ==
    /\ ctx.mounted
    /\ events > 0
    /\ Free(p)
    /\ events' = events - 1
    /\ UNCHANGED <<users, sessions, lsSession, cookie, now, nextUser, nextSession,
                   pc, loc, ret, quiet, orgs, members, nextOrg, ctx, task>>

\* handleStorageChange: if (e.key === 'iolta:session') loadSession()
CtxStorageEvent(p) ==
    /\ ctx.mounted
    /\ events > 0
    /\ Free(p)
    /\ GetSessionCall(p)
    /\ events' = events - 1
    /\ task' = [task EXCEPT ![p] = Task("load", "session", <<>>)]
    /\ UNCHANGED ctx

\* loadSession: const sessionData = await getSession(); setSession(sessionData);
\* without a session the finally block ends the load
CtxLoadSession(p) ==
    /\ task[p] = Task("load", "session", <<>>)
    /\ \/ GetSessionRead(p)
       \/ GetSessionGet(p)
       \/ GetSessionDelete(p)
       \/ GetSessionUser(p)
    /\ IF pc'[p] = "idle"
         THEN LET d == LoadedSession(p) IN
                /\ ctx' = IF d = <<>>
                            THEN Finally([ctx EXCEPT !.session = d])
                            ELSE [ctx EXCEPT !.session = d]
                /\ task' = [task EXCEPT ![p] =
                               IF d = <<>> THEN NoTask
                               ELSE Task("load", "orgs", << d[1].user.id >>)]
         ELSE UNCHANGED <<ctx, task>>
    /\ UNCHANGED events

\* const orgs = await getOrganizations(user.id): the call
CtxOrganizationsCall(p) ==
    /\ task[p].stage = "orgs"
    /\ GetOrgsCall(p, task[p].userId[1])
    /\ UNCHANGED ctxVars

\* ... its steps; setOrganizations(orgs)
CtxOrganizations(p) ==
    /\ task[p].stage = "orgs"
    /\ \/ GetOrgsMembers(p)
       \/ GetOrgsRow(p)
    /\ IF pc'[p] = "idle"
         THEN /\ ctx' = [ctx EXCEPT !.organizations = LoadedOrganizations(p)]
              /\ task' = [task EXCEPT ![p].stage = "active"]
         ELSE UNCHANGED <<ctx, task>>
    /\ UNCHANGED events

\* const activeOrg = await getActiveOrganization(): the call
CtxActiveOrgCall(p) ==
    /\ task[p].stage = "active"
    /\ GetActiveOrgCall(p)
    /\ UNCHANGED ctxVars

\* ... its steps; setActiveOrgState(activeOrg); finally setIsLoading(false)
CtxActiveOrg(p) ==
    /\ task[p].stage = "active"
    /\ \/ GetActiveOrgRead(p)
       \/ GetActiveOrgGet(p)
    /\ IF pc'[p] = "idle"
         THEN /\ ctx' = Finally([ctx EXCEPT !.activeOrganization =
                                                 LoadedActiveOrganization(p)])
              /\ task' = [task EXCEPT ![p] = NoTask]
         ELSE UNCHANGED <<ctx, task>>
    /\ UNCHANGED events

\* signInWithEmail: setIsLoading(true); setError(null); signInEmail(data) is called
CtxSignInCall(p, data) ==
    /\ ctx.mounted
    /\ Free(p)
    /\ SignInCall(p, data)
    /\ ctx' = [ctx EXCEPT !.isLoading = TRUE, !.error = <<>>]
    /\ task' = [task EXCEPT ![p] = Task("signIn", "auth", <<>>)]
    /\ UNCHANGED events

\* ... its steps; setSession({...}) when it resolves; setError(message), the
\* rethrow and setIsLoading(false) when it rejects
CtxSignIn(p) ==
    /\ task[p] = Task("signIn", "auth", <<>>)
    /\ \/ SignInLookup(p)
       \/ SignInAddSession(p)
    /\ IF pc'[p] # "idle"
         THEN UNCHANGED <<ctx, task>>
         ELSE IF SignInError(p) = << >>
           THEN /\ ctx' = [ctx EXCEPT !.session = SignedInSession(p)]
                /\ task' = [task EXCEPT ![p] =
                               Task("signIn", "orgs", << loc[p].user[1].id >>)]
           ELSE LET message == MessageOf(SignInError(p), "Sign in failed") IN
                /\ ctx' = Finally([ctx EXCEPT !.error = << message >>])
                /\ task' = [task EXCEPT ![p] = Rejected(message)]
    /\ UNCHANGED events

\* signUpWithEmail: setIsLoading(true); setError(null); signUpEmail(data) is called
CtxSignUpCall(p, data) ==
    /\ ctx.mounted
    /\ Free(p)
    /\ SignUpCall(p, data)
    /\ ctx' = [ctx EXCEPT !.isLoading = TRUE, !.error = <<>>]
    /\ task' = [task EXCEPT ![p] = Task("signUp", "auth", <<>>)]
    /\ UNCHANGED events

\* ... its steps; setSession({...}) when it resolves; setError(message) and the
\* rethrow when it rejects; finally setIsLoading(false)
CtxSignUp(p) ==
    /\ task[p] = Task("signUp", "auth", <<>>)
    /\ \/ SignUpLookup(p)
       \/ SignUpAddUser(p)
       \/ SignUpAddSession(p)
    /\ IF pc'[p] # "idle"
         THEN UNCHANGED <<ctx, task>>
         ELSE IF SignUpError(p) = << >>
           THEN /\ ctx' = Finally([ctx EXCEPT !.session = SignedInSession(p)])
                /\ task' = [task EXCEPT ![p] = NoTask]
           ELSE LET message == MessageOf(SignUpError(p), "Sign up failed") IN
                /\ ctx' = Finally([ctx EXCEPT !.error = << message >>])
                /\ task' = [task EXCEPT ![p] = Rejected(message)]
    /\ UNCHANGED events

\* handleSignOut: setIsLoading(true); localSignOut() is called
CtxSignOutCall(p) ==
    /\ ctx.mounted
    /\ Free(p)
    /\ SignOutCall(p)
    /\ ctx' = [ctx EXCEPT !.isLoading = TRUE]
    /\ task' = [task EXCEPT ![p] = Task("signOut", "auth", <<>>)]
    /\ UNCHANGED events

\* ... its steps; setSession(null); setActiveOrgState(null); setOrganizations([]);
\* finally setIsLoading(false).  The StorageEvent that signOut dispatches on its
\* own window runs handleStorageChange at once: that loadSession finds no
\* SessionReference and sets session null and isLoading false in the same turn
\* of the event loop, before handleSignOut goes on.
CtxSignOut(p) ==
    /\ task[p] = Task("signOut", "auth", <<>>)
    /\ \/ SignOutRead(p)
       \/ SignOutDelete(p)
    /\ IF pc'[p] = "idle"
         THEN /\ ctx' = Finally([ctx EXCEPT !.session = << >>,
                                            !.activeOrganization = << >>,
                                            !.organizations = << >>])
              /\ task' = [task EXCEPT ![p] = NoTask]
         ELSE UNCHANGED <<ctx, task>>
    /\ UNCHANGED events

\* A write of localStorage['iolta:session'] in another window that changes the
\* entry puts a 'storage' event in the queue of the window with the listener.
Notified ==
    IF ctx.mounted /\ lsSession' # lsSession
      THEN events < MaxEvents /\ events' = events + 1
      ELSE UNCHANGED events

CtxSignUpInputs ==
    [email : { <<"J">> }, password : {"hunter22"}, name : {"Jane Doe"}]
CtxSignInInputs ==
    { [email |-> <<"J">>, password |-> "hunter22", name |-> ""],
      [email |-> <<"J">>, password |-> "x", name |-> ""] }
CtxCreateOrgInputs(userIds) ==
    [name : {"Firm"}, slug : {"a"}, logo : {<<>>}, userId : userIds]

\* the window of the observed tab calls signOut and createOrganization directly
CtxOtherStep(p) ==
    /\ \/ SignOutCall(p)
       \/ SignOutRead(p)
       \/ SignOutDelete(p)
       \/ \E data \in CtxCreateOrgInputs({u.id : u \in users}) : CreateOrgCall(p, data)
       \/ CreateOrgLookup(p)
       \/ CreateOrgAddOrg(p)
       \/ CreateOrgAddMember(p)
    /\ Notified
    /\ UNCHANGED <<ctx, task>>

\* the steps of an activation that follow from what is already under way
CtxProgress(p) ==
    \/ CtxLoadSession(p)
    \/ CtxOrganizationsCall(p)
    \/ CtxOrganizations(p)
    \/ CtxActiveOrgCall(p)
    \/ CtxActiveOrg(p)
    \/ CtxSignIn(p)
    \/ CtxSignUp(p)
    \/ CtxSignOut(p)

\* the activation that mounts the provider and serves the forms; the storage
\* events start loadSession in whichever activation is free
CtxMain == "B"

CtxStep(p) ==
    \/ CtxStorageEvent(p)
    \/ CtxProgress(p)

CtxUserStep(p) ==
    \/ CtxMount(p)
    \/ \E data \in CtxSignInInputs : CtxSignInCall(p, data)
    \/ \E data \in CtxSignUpInputs : CtxSignUpCall(p, data)
    \/ CtxSignOutCall(p)

CtxNext ==
    /\ \/ CtxOtherStep(Observed)
       \/ CtxUserStep(CtxMain)
       \/ \E p \in CtxThreads : CtxStep(p)
       \/ Tick(SevenDaysMs + 1) /\ UNCHANGED ctxVars
    /\ UNCHANGED dataVars

SpecCtx == Init /\ [][CtxNext]_vars

\* The event loop delivers a queued storage event and the awaited database
\* calls complete: a step that an activation can take is taken in the end.
\* Nothing obliges a user to mount, to submit a form or to start a call.
CtxFairness ==
    /\ \A p \in CtxThreads : WF_vars(CtxStep(p) /\ UNCHANGED dataVars)
    /\ WF_vars(pc[Observed] # "idle" /\ CtxOtherStep(Observed) /\ UNCHANGED dataVars)

\* The windows without the clock: the session of the Auth Context does not
\* expire while the other tab signs out of it.
SyncNext ==
    /\ \/ CtxOtherStep(Observed)
       \/ CtxUserStep(CtxMain)
       \/ \E p \in CtxThreads : CtxStep(p)
    /\ UNCHANGED dataVars

SpecSync == Init /\ [][SyncNext]_vars /\ CtxFairness

-----------------------------------------------------------------------------
(* The functions that write or clear the SessionReference and its cookie, by  *)
(* themselves: no clock, no edited reference.  The observed tab runs all of   *)
(* them; the other tab reads its session and signs out beside it.             *)

CookieSignInInputs == { [email |-> <<"J">>, password |-> "hunter22", name |-> ""] }

CookieOtherStep(p) ==
    \/ SignOutCall(p)
    \/ SignOutRead(p)
    \/ SignOutDelete(p)
    \/ GetSessionCall(p)
    \/ GetSessionRead(p)
    \/ GetSessionGet(p)
    \/ GetSessionDelete(p)
    \/ GetSessionUser(p)

CookieStep(p) ==
    \/ \E data \in CtxSignUpInputs : SignUpCall(p, data)
    \/ SignUpLookup(p)
    \/ SignUpAddUser(p)
    \/ SignUpAddSession(p)
    \/ \E data \in CookieSignInInputs : SignInCall(p, data)
    \/ SignInLookup(p)
    \/ SignInAddSession(p)
    \/ CookieOtherStep(p)
    \/ \E data \in CtxCreateOrgInputs({u.id : u \in users}) : CreateOrgCall(p, data)
    \/ CreateOrgLookup(p)
    \/ CreateOrgAddOrg(p)
    \/ CreateOrgAddMember(p)
    \/ \E id \in {o.id : o \in orgs} : SetActiveOrgCall(p, id)
    \/ SetActiveOrgWrite(p)
    \/ ClearAllSessionsCall(p)
    \/ ClearAllSessionsClear(p)
    \/ ClearAllAuthDataCall(p)
    \/ ClearAllAuthDataTxn(p)

CookieNext ==
    /\ \/ CookieStep(Observed)
       \/ \E p \in Tabs \ {Observed} : CookieOtherStep(p)
    /\ UNCHANGED <<ctxVars, dataVars>>

SpecCookie == Init /\ [][CookieNext]_vars

-----------------------------------------------------------------------------
(* Trust accounting: the storage functions over db.clients, db.matters,       *)
(* db.transactions and db.holds (src/lib/contexts/usage-context.tsx).  A      *)
(* function outside a transaction runs each awaited operation in a            *)
(* transaction of its own on the one table; it waits while that table is in   *)
(* the scope of a read-write transaction under way.                           *)

MaxRows == 5

storeVars == <<clients, matters, transactions, holds, locked, nextRow>>

\* crypto.randomUUID(): the n-th id drawn
RandomRowId(n) == <<"row", n>>

\* no read-write transaction under way has one of these tables in its scope
Unlocked(tables) == tables \cap locked = {}

\* const client: Client = { ...data, id: crypto.randomUUID(), ... }
NewClientRow(n) == [id |-> RandomRowId(n)]
NewMatterRow(n, data) == [id |-> RandomRowId(n), clientId |-> data.clientId]
NewTransactionRow(n, data) ==
    [id |-> RandomRowId(n), matterId |-> data.matterId, type |-> data.type,
     amount |-> data.amount, status |-> data.status]
NewHoldRow(n, data) ==
    [id |-> RandomRowId(n), matterId |-> data.matterId, amount |-> data.amount,
     status |-> data.status]

\* db.matters.where('clientId').equals(id), db.holds.where('matterId').equals(id), ...
MattersByClient(id) == {m \in matters : m.clientId = id}
TransactionsByMatter(id) == {t \in transactions : t.matterId = id}
HoldsByMatter(id) == {h \in holds : h.matterId = id}

\* toArray() of an index query: the rows in primary key order; here their ids
RECURSIVE IdsInOrder(_)
IdsInOrder(rows) ==
    IF rows = {} THEN << >>
    ELSE LET first == CHOOSE r \in rows : \A q \in rows : r.id[2] <= q.id[2]
         IN  << first.id >> \o IdsInOrder(rows \ {first})

\* .reduce((sum, t) => sum + t.amount, 0)
RECURSIVE SumAmounts(_)
SumAmounts(rows) ==
    IF rows = {} THEN 0
    ELSE LET r == CHOOSE r \in rows : TRUE
         IN  r.amount + SumAmounts(rows \ {r})

(* createClient, createMatter, createTransaction, createHold *)

CreateClientCall(p) ==
    /\ pc[p] = "idle"
    /\ nextRow < MaxRows
    /\ Goto(p, "cc_add")
    /\ loc' = [loc EXCEPT ![p] = [NoLocals EXCEPT !.row = << NewClientRow(nextRow + 1) >>]]
    /\ nextRow' = nextRow + 1
    /\ quiet' = Begin(p)
    /\ ret' = Keep(p)
    /\ UNCHANGED <<clients, matters, transactions, holds, locked>>

\* await db.clients.add(client); return client
CreateClientAdd(p) ==
    /\ pc[p] = "cc_add"
    /\ Unlocked({"clients"})
    /\ clients' = clients \cup {loc[p].row[1]}
    /\ Return(p, Result("createClient", NoData, "", loc[p].row, "ok"))
    /\ quiet' = Disturb(p)
    /\ UNCHANGED <<matters, transactions, holds, locked, nextRow>>

CreateMatterCall(p, data) ==
    /\ pc[p] = "idle"
    /\ nextRow < MaxRows
    /\ Goto(p, "cm_add")
    /\ loc' = [loc EXCEPT ![p] = [NoLocals EXCEPT !.data = data,
                                                  !.row = << NewMatterRow(nextRow + 1, data) >>]]
    /\ nextRow' = nextRow + 1
    /\ quiet' = Begin(p)
    /\ ret' = Keep(p)
    /\ UNCHANGED <<clients, matters, transactions, holds, locked>>

\* await db.matters.add(matter); return matter
CreateMatterAdd(p) ==
    /\ pc[p] = "cm_add"
    /\ Unlocked({"matters"})
    /\ matters' = matters \cup {loc[p].row[1]}
    /\ Return(p, Result("createMatter", loc[p].data, "", loc[p].row, "ok"))
    /\ quiet' = Disturb(p)
    /\ UNCHANGED <<clients, transactions, holds, locked, nextRow>>

CreateTransactionCall(p, data) ==
    /\ pc[p] = "idle"
    /\ nextRow < MaxRows
    /\ Goto(p, "ct_add")
    /\ loc' = [loc EXCEPT ![p] = [NoLocals EXCEPT !.data = data,
                                                  !.row = << NewTransactionRow(nextRow + 1, data) >>]]
    /\ nextRow' = nextRow + 1
    /\ quiet' = Begin(p)
    /\ ret' = Keep(p)
    /\ UNCHANGED <<clients, matters, transactions, holds, locked>>

\* await db.transactions.add(transaction); return transaction
CreateTransactionAdd(p) ==
    /\ pc[p] = "ct_add"
    /\ Unlocked({"transactions"})
    /\ transactions' = transactions \cup {loc[p].row[1]}
    /\ Return(p, Result("createTransaction", loc[p].data, "", loc[p].row, "ok"))
    /\ quiet' = Disturb(p)
    /\ UNCHANGED <<clients, matters, holds, locked, nextRow>>

CreateHoldCall(p, data) ==
    /\ pc[p] = "idle"
    /\ nextRow < MaxRows
    /\ Goto(p, "ch_add")
    /\ loc' = [loc EXCEPT ![p] = [NoLocals EXCEPT !.data = data,
                                                  !.row = << NewHoldRow(nextRow + 1, data) >>]]
    /\ nextRow' = nextRow + 1
    /\ quiet' = Begin(p)
    /\ ret' = Keep(p)
    /\ UNCHANGED <<clients, matters, transactions, holds, locked>>

\* await db.holds.add(hold); return hold
CreateHoldAdd(p) ==
    /\ pc[p] = "ch_add"
    /\ Unlocked({"holds"})
    /\ holds' = holds \cup {loc[p].row[1]}
    /\ Return(p, Result("createHold", loc[p].data, "", loc[p].row, "ok"))
    /\ quiet' = Disturb(p)
    /\ UNCHANGED <<clients, matters, transactions, locked, nextRow>>

(* deleteClient *)

\* variant of DeleteClientScope: the transaction covers two of the four tables
DeleteClientScopeNarrow == {"clients", "matters"}

\* db.transaction('rw', [db.clients, db.matters, db.transactions, db.holds], ...)
DeleteClientScope == {"clients", "matters", "transactions", "holds"}

DeleteClientCall(p, id) ==
    /\ pc[p] = "idle"
    /\ Goto(p, "dc_begin")
    /\ loc' = [loc EXCEPT ![p] = [NoLocals EXCEPT !.data = [id |-> id]]]
    /\ quiet' = Begin(p)
    /\ ret' = Keep(p)
    /\ UNCHANGED storeVars

\* the transaction begins once its tables are free;
\* const matters = await db.matters.where('clientId').equals(id).toArray();
\* const matterIds = matters.map((m) => m.id)
DeleteClientBegin(p) ==
    /\ pc[p] = "dc_begin"
    /\ Unlocked(DeleteClientScope)
    /\ locked' = DeleteClientScope
    /\ LET ids == IdsInOrder(MattersByClient(loc[p].data.id)) IN
         /\ loc' = [loc EXCEPT ![p].matterIds = ids, ![p].rows = ids]
         /\ Goto(p, IF ids = << >> THEN "dc_matters" ELSE "dc_holds")
    /\ quiet' = Disturb(p)
    /\ ret' = Keep(p)
    /\ UNCHANGED <<clients, matters, transactions, holds, nextRow>>

\* for (const matterId of matterIds):
\*   await db.holds.where('matterId').equals(matterId).delete()
DeleteClientHolds(p) ==
    /\ pc[p] = "dc_holds"
    /\ holds' = holds \ HoldsByMatter(Head(loc[p].rows))
    /\ Goto(p, "dc_transactions")
    /\ quiet' = Disturb(p)
    /\ ret' = Keep(p)
    /\ UNCHANGED <<clients, matters, transactions, locked, nextRow, loc>>

\*   await db.transactions.where('matterId').equals(matterId).delete()
DeleteClientTransactions(p) ==
    /\ pc[p] = "dc_transactions"
    /\ transactions' = transactions \ TransactionsByMatter(Head(loc[p].rows))
    /\ loc' = [loc EXCEPT ![p].rows = Tail(@)]
    /\ Goto(p, IF Tail(loc[p].rows) = << >> THEN "dc_matters" ELSE "dc_holds")
    /\ quiet' = Disturb(p)
    /\ ret' = Keep(p)
    /\ UNCHANGED <<clients, matters, holds, locked, nextRow>>

\* await db.matters.where('clientId').equals(id).delete()
DeleteClientMatters(p) ==
    /\ pc[p] = "dc_matters"
    /\ matters' = matters \ MattersByClient(loc[p].data.id)
    /\ Goto(p, "dc_client")
    /\ quiet' = Disturb(p)
    /\ ret' = Keep(p)
    /\ UNCHANGED <<clients, transactions, holds, locked, nextRow, loc>>

\* await db.clients.delete(id); the transaction commits and deleteClient resolves
DeleteClientCommit(p) ==
    /\ pc[p] = "dc_client"
    /\ clients' = {c \in clients : c.id # loc[p].data.id}
    /\ locked' = {}
    /\ Return(p, Result("deleteClient", loc[p].data, "", loc[p].matterIds, "ok"))
    /\ quiet' = Disturb(p)
    /\ UNCHANGED <<matters, transactions, holds, nextRow>>

(* deleteMatter *)

\* db.transaction('rw', [db.matters, db.transactions, db.holds], ...)
DeleteMatterScope == {"matters", "transactions", "holds"}

DeleteMatterCall(p, id) ==
    /\ pc[p] = "idle"
    /\ Goto(p, "dm_begin")
    /\ loc' = [loc EXCEPT ![p] = [NoLocals EXCEPT !.data = [id |-> id]]]
    /\ quiet' = Begin(p)
    /\ ret' = Keep(p)
    /\ UNCHANGED storeVars

\* the transaction begins; await db.holds.where('matterId').equals(id).delete()
DeleteMatterBegin(p) ==
    /\ pc[p] = "dm_begin"
    /\ Unlocked(DeleteMatterScope)
    /\ locked' = DeleteMatterScope
    /\ holds' = holds \ HoldsByMatter(loc[p].data.id)
    /\ Goto(p, "dm_transactions")
    /\ quiet' = Disturb(p)
    /\ ret' = Keep(p)
    /\ UNCHANGED <<clients, matters, transactions, nextRow, loc>>

\* await db.transactions.where('matterId').equals(id).delete()
DeleteMatterTransactions(p) ==
    /\ pc[p] = "dm_transactions"
    /\ transactions' = transactions \ TransactionsByMatter(loc[p].data.id)
    /\ Goto(p, "dm_matter")
    /\ quiet' = Disturb(p)
    /\ ret' = Keep(p)
    /\ UNCHANGED <<clients, matters, holds, locked, nextRow, loc>>

\* await db.matters.delete(id); the transaction commits
DeleteMatterCommit(p) ==
    /\ pc[p] = "dm_matter"
    /\ matters' = {m \in matters : m.id # loc[p].data.id}
    /\ locked' = {}
    /\ Return(p, Result("deleteMatter", loc[p].data, "", << >>, "ok"))
    /\ quiet' = Disturb(p)
    /\ UNCHANGED <<clients, transactions, holds, nextRow>>

(* getMatterWithBalance *)

\* variant of Completed: the status of a transaction is not looked at
CompletedAny(rows, type) == {t \in rows : t.type = type}

\* .filter((t) => t.type === type && t.status === 'completed')
Completed(rows, type) == {t \in rows : t.type = type /\ t.status = "completed"}

\* .filter((h) => h.status === 'active')
ActiveHolds(rows) == {h \in rows : h.status = "active"}

\* the value that getMatterWithBalance returns
MatterWithBalance(matter, txs, activeHolds, client) ==
    LET totalDeposits == SumAmounts(Completed(txs, "deposit"))
        totalDisbursements == SumAmounts(Completed(txs, "disbursement"))
        totalHolds == SumAmounts(activeHolds)
        balance == totalDeposits - totalDisbursements
    IN  [id |-> matter.id,
         clientId |-> matter.clientId,
         balance |-> balance,
         totalDeposits |-> totalDeposits,
         totalDisbursements |-> totalDisbursements,
         totalHolds |-> totalHolds,
         availableBalance |-> balance - totalHolds,
         client |-> client]

GetMatterWithBalanceCall(p, matterId) ==
    /\ pc[p] = "idle"
    /\ Goto(p, "gb_matter")
    /\ loc' = [loc EXCEPT ![p] = [NoLocals EXCEPT !.data = [id |-> matterId]]]
    /\ quiet' = Begin(p)
    /\ ret' = Keep(p)
    /\ UNCHANGED storeVars

\* const matter = await db.matters.get(matterId); if (!matter) return undefined
GbMatter(p) ==
    /\ pc[p] = "gb_matter"
    /\ Unlocked({"matters"})
    /\ LET found == {m \in matters : m.id = loc[p].data.id} IN
         IF found = {}
           THEN Return(p, Result("getMatterWithBalance", loc[p].data, "", << >>, "no-matter"))
           ELSE /\ Goto(p, "gb_transactions")
                /\ loc' = [loc EXCEPT ![p].matter = << CHOOSE m \in found : TRUE >>]
                /\ ret' = Keep(p)
    /\ quiet' = Disturb(p)
    /\ UNCHANGED storeVars

\* const transactions = await db.transactions.where('matterId').equals(matterId).toArray()
GbTransactions(p) ==
    /\ pc[p] = "gb_transactions"
    /\ Unlocked({"transactions"})
    /\ loc' = [loc EXCEPT ![p].transactions = TransactionsByMatter(loc[p].data.id)]
    /\ Goto(p, "gb_holds")
    /\ quiet' = Disturb(p)
    /\ ret' = Keep(p)
    /\ UNCHANGED storeVars

\* const holds = await db.holds.where('matterId').equals(matterId)
\*   .filter((h) => h.status === 'active').toArray()
GbHolds(p) ==
    /\ pc[p] = "gb_holds"
    /\ Unlocked({"holds"})
    /\ loc' = [loc EXCEPT ![p].holds = ActiveHolds(HoldsByMatter(loc[p].data.id))]
    /\ Goto(p, "gb_client")
    /\ quiet' = Disturb(p)
    /\ ret' = Keep(p)
    /\ UNCHANGED storeVars

\* what getMatterWithBalance resolves to in the step that ends it
LoadedMatter(p) ==
    IF pc[p] = "gb_client"
      THEN << MatterWithBalance(loc[p].matter[1], loc[p].transactions, loc[p].holds,
                                IF \E c \in clients : c.id = loc[p].matter[1].clientId
                                  THEN << CHOOSE c \in clients :
                                             c.id = loc[p].matter[1].clientId >>
                                  ELSE << >>) >>
      ELSE << >>

\* const client = await db.clients.get(matter.clientId); the sums; the return
GbClient(p) ==
    /\ pc[p] = "gb_client"
    /\ Unlocked({"clients"})
    /\ Return(p, Result("getMatterWithBalance", loc[p].data, "", LoadedMatter(p), "ok"))
    /\ quiet' = Disturb(p)
    /\ UNCHANGED storeVars

(* The storage functions in two tabs: the observed tab creates rows and       *)
(* deletes clients and matters with all that hangs on them; the other tab     *)
(* reads matters with their balances and adds transactions beside it.         *)

StoreTransactionInputs(matterIds) ==
    [matterId : matterIds, type : {"deposit"}, amount : {1}, status : {"completed"}]
StoreHoldInputs(matterIds) ==
    [matterId : matterIds, amount : {1}, status : {"active"}]

StoreOtherStep(p) ==
    \/ \E id \in {m.id : m \in matters} : GetMatterWithBalanceCall(p, id)
    \/ GbMatter(p)
    \/ GbTransactions(p)
    \/ GbHolds(p)
    \/ GbClient(p)
    \/ \E data \in StoreTransactionInputs({m.id : m \in matters}) :
          CreateTransactionCall(p, data)
    \/ CreateTransactionAdd(p)

StoreStep(p) ==
    \/ CreateClientCall(p)
    \/ CreateClientAdd(p)
    \/ \E data \in [clientId : {c.id : c \in clients}] : CreateMatterCall(p, data)
    \/ CreateMatterAdd(p)
    \/ \E data \in StoreTransactionInputs({m.id : m \in matters}) :
          CreateTransactionCall(p, data)
    \/ CreateTransactionAdd(p)
    \/ \E data \in StoreHoldInputs({m.id : m \in matters}) : CreateHoldCall(p, data)
    \/ CreateHoldAdd(p)
    \/ \E id \in {c.id : c \in clients} : DeleteClientCall(p, id)
    \/ DeleteClientBegin(p)
    \/ DeleteClientHolds(p)
    \/ DeleteClientTransactions(p)
    \/ DeleteClientMatters(p)
    \/ DeleteClientCommit(p)
    \/ \E id \in {m.id : m \in matters} : DeleteMatterCall(p, id)
    \/ DeleteMatterBegin(p)
    \/ DeleteMatterTransactions(p)
    \/ DeleteMatterCommit(p)

StoreNext ==
    /\ \/ StoreStep(Observed)
       \/ \E p \in Tabs \ {Observed} : StoreOtherStep(p)
    /\ UNCHANGED <<authVars, ctxVars, page, kv>>

SpecStore == Init /\ [][StoreNext]_vars

(* The balance of a matter: the observed tab adds transactions of every type *)
(* and status and holds of every status and reads the matter with its        *)
(* balance; the other tab adds completed deposits beside it.                 *)

TransactionTypes == {"deposit", "disbursement", "transfer"}
TransactionStatuses == {"pending", "completed", "void"}
HoldStatuses == {"active", "released", "partial"}
Amounts == {1, 2}

BalanceTransactionInputs(matterIds) ==
    [matterId : matterIds, type : TransactionTypes, amount : Amounts,
     status : TransactionStatuses]
BalanceHoldInputs(matterIds) ==
    [matterId : matterIds, amount : Amounts, status : HoldStatuses]

BalanceStep(p) ==
    \/ CreateClientCall(p)
    \/ CreateClientAdd(p)
    \/ \E data \in [clientId : {c.id : c \in clients}] : CreateMatterCall(p, data)
    \/ CreateMatterAdd(p)
    \/ \E data \in BalanceTransactionInputs({m.id : m \in matters}) :
          CreateTransactionCall(p, data)
    \/ CreateTransactionAdd(p)
    \/ \E data \in BalanceHoldInputs({m.id : m \in matters}) : CreateHoldCall(p, data)
    \/ CreateHoldAdd(p)
    \/ \E id \in {m.id : m \in matters} : GetMatterWithBalanceCall(p, id)
    \/ GbMatter(p)
    \/ GbTransactions(p)
    \/ GbHolds(p)
    \/ GbClient(p)

BalanceOtherStep(p) ==
    \/ \E data \in StoreTransactionInputs({m.id : m \in matters}) :
          CreateTransactionCall(p, data)
    \/ CreateTransactionAdd(p)

BalanceNext ==
    /\ \/ BalanceStep(Observed)
       \/ \E p \in Tabs \ {Observed} : BalanceOtherStep(p)
    /\ UNCHANGED <<authVars, ctxVars, page, kv>>

SpecBalance == Init /\ [][BalanceNext]_vars

(* The New Transaction and New Hold pages (NewTransactionPage, NewHoldPage): *)
(* a page loads the selected matter with its balance into its state, checks  *)
(* the amount of a submission against that state and then adds the row.      *)

\* useEffect on selectedMatterId: loadMatter() calls getMatterWithBalance
PageOpen(p, kind, matterId) ==
    /\ page[p].kind = "none"
    /\ GetMatterWithBalanceCall(p, matterId)
    /\ page' = [page EXCEPT ![p] = [NoPage EXCEPT !.kind = kind,
                                                  !.stage = "loading",
                                                  !.matterId = << matterId >>]]

\* const matter = await getMatterWithBalance(selectedMatterId);
\* setSelectedMatter(matter || null)
PageLoadMatter(p) ==
    /\ page[p].stage = "loading"
    /\ \/ GbMatter(p)
       \/ GbTransactions(p)
       \/ GbHolds(p)
       \/ GbClient(p)
    /\ page' = IF pc'[p] = "idle"
                 THEN [page EXCEPT ![p].selectedMatter = LoadedMatter(p),
                                   ![p].stage = "form"]
                 ELSE page

\* if (transactionType === 'disbursement' && amount > selectedMatter.availableBalance)
InsufficientFunds(type, amount, selectedMatter) ==
    type = "disbursement" /\ amount > selectedMatter.availableBalance

\* if (amount > selectedMatter.availableBalance)
ExceedsAvailable(amount, selectedMatter) == amount > selectedMatter.availableBalance

\* handleSubmit of the New Transaction page: the early return, the check of the
\* amount, then createTransaction({..., status: 'completed'}) up to its await
SubmitTransaction(p, type, amount) ==
    /\ page[p].kind = "transaction"
    /\ page[p].stage = "form"
    /\ page[p].selectedMatter # << >>
    /\ IF InsufficientFunds(type, amount, page[p].selectedMatter[1])
         THEN /\ page' = [page EXCEPT ![p].error = << "Insufficient funds" >>]
              /\ UNCHANGED <<pc, loc, ret, quiet, storeVars>>
         ELSE /\ CreateTransactionCall(p, [matterId |-> page[p].matterId[1],
                                           type |-> type,
                                           amount |-> amount,
                                           status |-> "completed"])
              /\ page' = [page EXCEPT ![p].error = << >>, ![p].stage = "saving"]

\* handleSubmit of the New Hold page
SubmitHold(p, amount) ==
    /\ page[p].kind = "hold"
    /\ page[p].stage = "form"
    /\ page[p].selectedMatter # << >>
    /\ IF ExceedsAvailable(amount, page[p].selectedMatter[1])
         THEN /\ page' = [page EXCEPT ![p].error = << "Amount exceeds available balance" >>]
              /\ UNCHANGED <<pc, loc, ret, quiet, storeVars>>
         ELSE /\ CreateHoldCall(p, [matterId |-> page[p].matterId[1],
                                    amount |-> amount,
                                    status |-> "active"])
              /\ page' = [page EXCEPT ![p].error = << >>, ![p].stage = "saving"]

\* the row is added; router.push(...) leaves the page
PageSave(p) ==
    /\ page[p].stage = "saving"
    /\ \/ CreateTransactionAdd(p)
       \/ CreateHoldAdd(p)
    /\ page' = [page EXCEPT ![p] = NoPage]

PageKinds == {"transaction", "hold"}
FormTransactionTypes == {"deposit", "disbursement"}

PageStep(p) ==
    \/ \E kind \in PageKinds, id \in {m.id : m \in matters} : PageOpen(p, kind, id)
    \/ PageLoadMatter(p)
    \/ \E type \in FormTransactionTypes, amount \in Amounts : SubmitTransaction(p, type, amount)
    \/ \E amount \in Amounts : SubmitHold(p, amount)
    \/ PageSave(p)

\* the client and the matter that the forms work on are set up in the observed tab
FormsSetupStep(p) ==
    /\ page[p].kind = "none"
    /\ \/ CreateClientCall(p)
       \/ CreateClientAdd(p)
       \/ \E data \in [clientId : {c.id : c \in clients}] : CreateMatterCall(p, data)
       \/ CreateMatterAdd(p)
    /\ UNCHANGED page

FormsNext ==
    /\ \/ FormsSetupStep(Observed)
       \/ \E p \in Tabs : PageStep(p)
    /\ UNCHANGED <<authVars, ctxVars, kv>>

SpecForms == Init /\ [][FormsNext]_vars

-----------------------------------------------------------------------------
(* The localStorage helper: serializeDates, deserializeDates,                 *)
(* saveToLocalStorage, loadFromLocalStorage.  A JavaScript value is a record  *)
(* tagged with its kind; a Date holds its time value in milliseconds, or is   *)
(* an Invalid Date.                                                           *)

DateOf(ms) == [t |-> "date", valid |-> TRUE, ms |-> ms]
InvalidDate == [t |-> "date", valid |-> FALSE, ms |-> 0]
Str(s) == [t |-> "str", s |-> s]
Num(n) == [t |-> "num", n |-> n]
Null == [t |-> "null"]
Obj(k, x) == [t |-> "obj", f |-> (k :> x)]
Arr(items) == [t |-> "arr", items |-> items]

\* variant of ToISOString: the milliseconds are dropped
ToISOStringSeconds(ms) == "1970-01-01T00:00:00.000Z"

\* Date.prototype.toISOString() of a valid date
ToISOString(ms) ==
    IF ms = 0 THEN "1970-01-01T00:00:00.000Z" ELSE "1970-01-01T00:00:00.001Z"

\* new Date(value).getTime(): the time value, or none (NaN) when the string is
\* no date
DateParse(s) ==
    CASE s = "1970-01-01T00:00:00.000Z" -> << 0 >>
      [] s = "1970-01-01T00:00:00.001Z" -> << 1 >>
      [] s = "1970-01-01" -> << 0 >>
      [] OTHER -> << >>

\* obj.toISOString() throws a RangeError somewhere in serializeDates(obj)
RECURSIVE SerializeThrows(_)
SerializeThrows(obj) ==
    CASE obj.t = "date" -> ~obj.valid
      [] obj.t = "arr" -> \E i \in DOMAIN obj.items : SerializeThrows(obj.items[i])
      [] obj.t = "obj" -> \E k \in DOMAIN obj.f : SerializeThrows(obj.f[k])
      [] OTHER -> FALSE

RECURSIVE serializeDates(_)
serializeDates(obj) ==
    CASE obj.t = "date" -> Str(ToISOString(obj.ms))
      [] obj.t = "arr" -> Arr([i \in DOMAIN obj.items |-> serializeDates(obj.items[i])])
      [] obj.t = "obj" ->
           [t |-> "obj", f |-> [k \in DOMAIN obj.f |-> serializeDates(obj.f[k])]]
      [] OTHER -> obj

defaultDateFields ==
    {"createdAt", "updatedAt", "timestamp", "expiresAt", "openDate", "closeDate",
     "releasedAt", "generatedAt"}

\* typeof value === 'object'
TypeofObject(value) == value.t \in {"obj", "arr", "null", "date"}

RECURSIVE deserializeDates(_, _)
deserializeDates(obj, dateFields) ==
    LET allDateFields == defaultDateFields \cup dateFields IN
    CASE obj.t = "arr" ->
           Arr([i \in DOMAIN obj.items |-> deserializeDates(obj.items[i], dateFields)])
      [] obj.t = "obj" ->
           [t |-> "obj",
            f |-> [k \in DOMAIN obj.f |->
                     LET value == obj.f[k] IN
                     IF k \in allDateFields /\ value.t = "str"
                       THEN IF DateParse(value.s) = << >>
                              THEN value
                              ELSE DateOf(DateParse(value.s)[1])
                       ELSE IF TypeofObject(value)
                              THEN deserializeDates(value, dateFields)
                              ELSE value]]
      [] OTHER -> obj

\* JSON.stringify of a value made of strings, numbers, null, arrays and objects,
\* and JSON.parse of such a text
JsonStringify(value) == [json |-> value]
JsonParse(text) == text.json

\* saveToLocalStorage(key, data)
saveToLocalStorage(key, data) ==
    /\ IF SerializeThrows(data)
         THEN /\ kv' = kv
              /\ ret' = Result("saveToLocalStorage", [key |-> key, data |-> data],
                               "", FALSE, "catch")
         ELSE /\ kv' = [kv EXCEPT ![key] = << JsonStringify(serializeDates(data)) >>]
              /\ ret' = Result("saveToLocalStorage", [key |-> key, data |-> data],
                               "", TRUE, "ok")
    /\ UNCHANGED <<pc, loc, quiet>>

\* loadFromLocalStorage(key, { dateFields })
loadFromLocalStorage(key, dateFields) ==
    /\ ret' = IF kv[key] = << >>
                THEN Result("loadFromLocalStorage",
                            [key |-> key, dateFields |-> dateFields], "", << >>,
                            "not-found")
                ELSE Result("loadFromLocalStorage",
                            [key |-> key, dateFields |-> dateFields], "",
                            << deserializeDates(JsonParse(kv[key][1]), dateFields) >>,
                            "ok")
    /\ UNCHANGED <<pc, loc, quiet, kv>>

(* The values saved: dates, strings that are dates and one that is not, a     *)
(* number and null, alone, under a default date field, under a field the      *)
(* caller names and under a field that is no date field, and one level deeper *)
(* in an object or an array.                                                  *)

Leaves ==
    {DateOf(0), DateOf(1), InvalidDate,
     Str("1970-01-01T00:00:00.001Z"), Str("1970-01-01"), Str("soon"),
     Num(7), Null}
FieldNames == {"createdAt", "dueDate", "note"}
FlatObjects == {Obj(k, x) : k \in FieldNames, x \in Leaves}
Nested ==
    {Obj("note", Obj("createdAt", x)) : x \in Leaves}
      \cup {Arr(<< Obj("createdAt", x) >>) : x \in Leaves}
      \cup {Obj("note", Arr(<< DateOf(1) >>))}
Values == Leaves \cup FlatObjects \cup Nested
CallerDateFields == {{}, {"dueDate"}}

DatesNext ==
    /\ \/ \E key \in Keys, data \in Values : saveToLocalStorage(key, data)
       \/ \E key \in Keys, dateFields \in CallerDateFields :
             loadFromLocalStorage(key, dateFields)
    /\ UNCHANGED <<authVars, ctxVars, storeVars, page>>

SpecDates == Init /\ [][DatesNext]_vars

-----------------------------------------------------------------------------
(* Vocabulary of the properties.  They are stated for the observed tab:       *)
(* a step of it moves its pc, and a call of it returns when its pc goes back  *)
(* to "idle", with the outcome in ret'.                                       *)

O == Observed

Stepped == pc'[O] # pc[O]

Returns(op) == pc[O] # "idle" /\ pc'[O] = "idle" /\ ret'.op = op

Resolved(r) == r.err = ""

\* the stored SessionReference names a Session row with the same token
RefRows ==
    IF Len(lsSession) = 1
      THEN {s \in sessions : s.id = lsSession[1].sessionId /\ s.token = lsSession[1].token}
      ELSE {}

-----------------------------------------------------------------------------
(* C1 *)

-----------------------------------------------------------------------------
(* C2 *)

\* a validity check of getSession fails in this step of the observed tab, or
\* has failed in an earlier step of the same call
CheckFails ==
    \/ /\ pc[O] = "gs_get"
       /\ LET r == loc[O].ref[1]
              rows == {s \in sessions : s.id = r.sessionId}
          IN  \/ rows = {}
              \/ \E s \in rows : s.token # r.token
              \/ \E s \in rows : s.expiresAt < now
    \/ /\ pc[O] = "gs_user"
       /\ ~ \E u \in users : u.id = loc[O].session[1].userId
    \/ pc[O] \in {"gs_delExpired", "gs_delOrphan"}

\* C2: whenever a validity check inside getSession fails (Session row missing,
\* token mismatch, session expired, user missing), the call goes on to resolve
\* to null without throwing, and when it returns the SessionReference and the
\* auth cookie are absent.
C2_FailedCheckClears ==
    [][ (Stepped /\ CheckFails)
          => /\ pc'[O] \in {"idle", "gs_delExpired", "gs_delOrphan"}
             /\ pc'[O] = "idle"
                  => /\ ret'.op = "getSession" /\ Resolved(ret') /\ ret'.val = <<>>
                     /\ lsSession' = <<>>
                     /\ ~CookiePresent' ]_vars

\* getSession has found its Session expired and has returned
C2_Witness ==
    pc[O] = "idle" /\ ret.op = "getSession" /\ ret.at = "expired"

-----------------------------------------------------------------------------
(* C3 *)

\* C3: an undisturbed getSession returns null for a Session whose expiresAt
\* equals the current time, and does not return null for one whose expiresAt is
\* one millisecond later (its user being there).
C3_ExpiryBoundary ==
    [][ (Returns("getSession") /\ quiet >= 1)
          => /\ (\E s \in RefRows : s.expiresAt = now) => ret'.val = <<>>
             /\ (\E s \in RefRows : s.expiresAt = now + 1
                                    /\ (\E u \in users : u.id = s.userId))
                  => ret'.val # <<>> ]_vars

-----------------------------------------------------------------------------
(* C4 *)

\* C4: when a signUp or signIn resolves, a new Session row exists with the
\* userId of the returned user and expiresAt = createdAt + 7 days, the
\* SessionReference is exactly {sessionId, token} of that row, and the auth
\* cookie holds that token.
C4_SessionEstablished ==
    [][ ((Returns("signUp") \/ Returns("signIn")) /\ Resolved(ret'))
          => LET user == ret'.val[1].user
                 session == ret'.val[1].session
             IN  /\ session \notin sessions
                 /\ session \in sessions'
                 /\ user.email = ToLowerCase(ret'.args.email)
                 /\ session.userId = user.id
                 /\ session.createdAt = now
                 /\ session.expiresAt = session.createdAt + SevenDaysMs
                 /\ lsSession' = << [sessionId |-> session.id, token |-> session.token] >>
                 /\ CookiePresent'
                 /\ cookie'[1].value = session.token ]_vars

\* a signIn has resolved
C4_Witness ==
    pc[O] = "idle" /\ ret.op = "signIn" /\ Resolved(ret)

-----------------------------------------------------------------------------
(* C5 *)

\* C5: a getSession that follows a resolved signUp at once returns a non-null
\* result whose user.email is the lower-cased e-mail given to signUp and whose
\* user has no passwordHash field.
C5_SignUpThenGetSession ==
    [][ (Returns("getSession") /\ quiet = 2 /\ ret.op = "signUp" /\ Resolved(ret))
          => /\ ret'.val # <<>>
             /\ ret'.val[1].user.email = ToLowerCase(ret.args.email)
             /\ "passwordHash" \notin DOMAIN ret'.val[1].user ]_vars

\* getSession is about to return, right after a signUp with an upper-case e-mail
C5_Witness ==
    /\ pc[O] = "gs_user" /\ quiet = 2
    /\ ret.op = "signUp" /\ Resolved(ret) /\ ret.args.email = <<"J">>

-----------------------------------------------------------------------------
(* C6 *)

\* the steps of a signUp call of the observed tab up to its lookup
SignUpBegins == pc[O] = "idle" /\ pc'[O] = "su_lookup"
SignUpLooksUp == pc[O] = "su_lookup" /\ Stepped

\* C6: a signUp whose e-mail matches an existing User's e-mail in any casing
\* fails with 'Email already registered', and no step of it changes the Users
\* table, the Sessions table, the SessionReference or the cookie.
C6_DuplicateEmailRejected ==
    [][ /\ SignUpBegins => UNCHANGED <<users, sessions, lsSession, cookie>>
        /\ (SignUpLooksUp
              /\ \E u \in users : ToLowerCase(u.email) = ToLowerCase(loc[O].data.email))
             => /\ pc'[O] = "idle"
                /\ ret'.op = "signUp"
                /\ ret'.err = "Email already registered"
                /\ UNCHANGED <<users, sessions, lsSession, cookie>> ]_vars

\* signUp with an upper-case e-mail was rejected as a duplicate
C6_Witness ==
    /\ pc[O] = "idle" /\ ret.op = "signUp" /\ ret.err = "Email already registered"
    /\ ret.args.email = <<"J">>

-----------------------------------------------------------------------------
(* C7 *)

\* C7: in every reachable state no two User rows have the same e-mail.
C7_UniqueEmails ==
    \A u1 \in users : \A u2 \in users : u1.email = u2.email => u1 = u2

-----------------------------------------------------------------------------
(* C8 *)

SignInBegins == pc[O] = "idle" /\ pc'[O] = "si_lookup"
SignInLooksUp == pc[O] = "si_lookup" /\ Stepped

\* the e-mail given to signIn is unknown, or the password's hash differs from
\* the stored hash
BadCredentials ==
    LET found == {u \in users : u.email = ToLowerCase(loc[O].data.email)}
    IN  \A u \in found : u.passwordHash # HashPassword(loc[O].data.password)

\* C8: a signIn with an unknown e-mail or a password whose hash differs from the
\* stored one rejects with 'Invalid email or password', and no step of it
\* creates a Session row or changes the SessionReference or the cookie.
C8_InvalidCredentialsRejected ==
    [][ /\ SignInBegins => UNCHANGED <<sessions, lsSession, cookie>>
        /\ (SignInLooksUp /\ BadCredentials)
             => /\ pc'[O] = "idle"
                /\ ret'.op = "signIn"
                /\ ret'.err = "Invalid email or password"
                /\ ret'.val = <<>>
                /\ UNCHANGED <<sessions, lsSession, cookie>> ]_vars

\* signIn of an existing user with a wrong password was rejected
C8_Witness ==
    /\ pc[O] = "idle" /\ ret.op = "signIn" /\ ret.err = "Invalid email or password"
    /\ \E u \in users : /\ u.email = ToLowerCase(ret.args.email)
                        /\ u.passwordHash # HashPassword(ret.args.password)

-----------------------------------------------------------------------------
(* C9 *)

\* C9: a signIn that resolves adds exactly one Session row; no step of it
\* removes or modifies a Session row that was there.
C9_SignInAddsOneSession ==
    [][ /\ SignInBegins => sessions' = sessions
        /\ (SignInLooksUp \/ (pc[O] = "si_addSession" /\ Stepped))
             => IF pc'[O] = "idle" /\ Resolved(ret')
                  THEN /\ sessions \subseteq sessions'
                       /\ Cardinality(sessions') = Cardinality(sessions) + 1
                  ELSE sessions' = sessions ]_vars

\* a signIn has resolved and an earlier Session of the same user is still there
C9_Witness ==
    /\ pc[O] = "idle" /\ ret.op = "signIn" /\ Resolved(ret)
    /\ \E s \in sessions : /\ s # ret.val[1].session
                           /\ s.userId = ret.val[1].user.id

-----------------------------------------------------------------------------
(* C10 *)

\* C10: when signOut returns, the Session row named by the SessionReference it
\* read is gone and the SessionReference and the cookie are absent (also when
\* there was no SessionReference); a getSession that follows at once returns
\* null.
C10_SignOutClears ==
    [][ /\ Returns("signOut")
             => /\ Resolved(ret')
                /\ lsSession' = <<>>
                /\ ~CookiePresent'
                /\ Len(loc[O].ref) = 1
                     => ~ \E s \in sessions' : s.id = loc[O].ref[1].sessionId
        /\ (Returns("getSession") /\ quiet = 2 /\ ret.op = "signOut")
             => ret'.val = <<>> ]_vars

\* a signOut has deleted the Session it found, and getSession has followed at once
C10_Witness ==
    /\ pc[O] = "idle" /\ ret.op = "getSession" /\ ret.at = "no-ref" /\ quiet = 2
    /\ nextSession >= 1 /\ sessions = {} /\ users # {}

-----------------------------------------------------------------------------
(* C11 *)

\* the stored SessionReference names a Session row that is not in the table
RowDeleted ==
    Len(lsSession) = 1 /\ ~ \E s \in sessions : s.id = lsSession[1].sessionId

\* C11: when the Session row named by the SessionReference has been deleted,
\* a getSession returns null and leaves the SessionReference absent, and the
\* getSession that follows it at once returns null as well, the
\* SessionReference still being absent.
C11_TwiceNullAfterDeletion ==
    [][ /\ (Returns("getSession") /\ quiet >= 1 /\ RowDeleted)
             => /\ Resolved(ret') /\ ret'.val = <<>>
                /\ ret'.at = "no-row"
                /\ lsSession' = <<>>
        /\ (Returns("getSession") /\ quiet = 2
              /\ ret.op = "getSession" /\ ret.at = "no-row")
             => /\ Resolved(ret') /\ ret'.val = <<>>
                /\ lsSession = <<>> /\ lsSession' = <<>> ]_vars

\* the second getSession is under way, the first one having found the row deleted
C11_Witness ==
    /\ pc[O] = "gs_call" /\ quiet = 2
    /\ ret.op = "getSession" /\ ret.at = "no-row"

-----------------------------------------------------------------------------
(* C12 *)

\* the SessionReference read by the call names a row whose token is another one
TokenDiffers ==
    /\ pc[O] = "gs_get"
    /\ \E s \in sessions : s.id = loc[O].ref[1].sessionId /\ s.token # loc[O].ref[1].token

\* C12: when the SessionReference's token differs from the token of the Session
\* row it names, getSession returns null and clears the SessionReference, and no
\* step of getSession up to there changes the Sessions table.
C12_TokenMismatchKeepsRow ==
    [][ /\ (Stepped /\ TokenDiffers)
             => /\ pc'[O] = "idle" /\ ret'.op = "getSession"
                /\ Resolved(ret') /\ ret'.val = <<>>
                /\ lsSession' = <<>>
                /\ sessions' = sessions
        /\ (Stepped /\ (pc'[O] = "gs_call" \/ pc[O] = "gs_call"))
             => sessions' = sessions ]_vars

\* getSession has returned on the token check, and the row is still there
C12_Witness ==
    /\ pc[O] = "idle" /\ ret.op = "getSession" /\ ret.at = "token" /\ quiet >= 1
    /\ sessions # {} /\ lsSession = <<>>

-----------------------------------------------------------------------------
(* C13 *)

\* getSession finds the Session it read expired / without its user
FindsExpired ==
    /\ pc[O] = "gs_get"
    /\ \E s \in sessions : /\ s.id = loc[O].ref[1].sessionId
                           /\ s.token = loc[O].ref[1].token
                           /\ s.expiresAt < now
FindsOrphan ==
    /\ pc[O] = "gs_user"
    /\ ~ \E u \in users : u.id = loc[O].session[1].userId

\* C13: when getSession finds the referenced Session expired, or finds no User
\* row for the Session's userId, it goes on to delete the row, and the row is
\* not in the Sessions table when getSession returns.
C13_ExpiredOrOrphanDeleted ==
    [][ /\ (Stepped /\ FindsExpired) => pc'[O] = "gs_delExpired"
        /\ (Stepped /\ FindsOrphan) => pc'[O] = "gs_delOrphan"
        /\ (Stepped /\ pc[O] \in {"gs_delExpired", "gs_delOrphan"})
             => /\ pc'[O] = "idle" /\ ret'.op = "getSession"
                /\ ~ \E s \in sessions' : s.id = loc[O].session[1].id ]_vars

\* getSession has returned after deleting an orphaned or expired Session
C13_Witness ==
    /\ pc[O] = "idle" /\ ret.op = "getSession" /\ ret.at \in {"expired", "no-user"}
    /\ nextSession >= 1 /\ sessions = {}

-----------------------------------------------------------------------------
(* C15 *)

\* C15: when deleteUserByEmail(e) returns after finding a user, no User row
\* with the e-mail e (lower-cased, as it is stored), no Session row and no
\* Member row with that user's id remain, and the Organizations table is as it
\* was.
C15_DeleteUserCascades ==
    [][ (Returns("deleteUserByEmail") /\ pc[O] = "du_txn")
          => LET u == loc[O].user[1] IN
               /\ ~ \E v \in users' : v.email = ToLowerCase(loc[O].data.email)
               /\ ~ \E x \in sessions' : x.userId = u.id
               /\ ~ \E m \in members' : m.userId = u.id
               /\ orgs' = orgs ]_vars

-----------------------------------------------------------------------------
(* C16 *)

\* C16: when clearAllAuthData returns, the Users, Sessions, Members and
\* Organizations tables are empty and the SessionReference and the cookie are
\* absent, whatever they held before.
C16_ClearAllAuthDataEmpties ==
    [][ Returns("clearAllAuthData")
          => /\ Resolved(ret')
             /\ users' = {} /\ sessions' = {} /\ members' = {} /\ orgs' = {}
             /\ lsSession' = <<>>
             /\ ~CookiePresent' ]_vars

\* clearAllAuthData is about to run its transaction over a User, two Sessions,
\* a Member, an Organization and a stored SessionReference
C16_Witness ==
    /\ pc[O] = "ca_call"
    /\ users # {} /\ Cardinality(sessions) = 2 /\ members # {} /\ orgs # {}
    /\ Len(lsSession) = 1 /\ CookiePresent

-----------------------------------------------------------------------------
(* C17 *)

\* the stored SessionReference is r with its activeOrgId set to orgId
ActivatedFrom(r, orgId) ==
    /\ Len(lsSession') = 1
    /\ DOMAIN lsSession'[1] = (DOMAIN r) \cup {"activeOrgId"}
    /\ lsSession'[1].activeOrgId = orgId
    /\ lsSession'[1].sessionId = r.sessionId
    /\ lsSession'[1].token = r.token

\* C17: with a SessionReference stored, a createOrganization that resolves and a
\* setActiveOrganization leave the SessionReference with the activeOrgId of the
\* organization they name and with the sessionId and token it had, and a
\* getActiveOrganization that follows at once returns that organization.
C17_MostRecentOrgIsActive ==
    [][ /\ (Returns("createOrganization") /\ Resolved(ret') /\ Len(lsSession) = 1)
             => ActivatedFrom(lsSession[1], ret'.val[1].id)
        /\ (Returns("setActiveOrganization") /\ Len(lsSession) = 1)
             => ActivatedFrom(lsSession[1], loc[O].data.orgId)
        /\ (Returns("getActiveOrganization") /\ quiet = 2 /\ Len(lsSession) = 1
              /\ ret.op = "createOrganization" /\ Resolved(ret))
             => ret'.val = ret.val
        /\ (Returns("getActiveOrganization") /\ quiet = 2 /\ Len(lsSession) = 1
              /\ ret.op = "setActiveOrganization")
             => \A o \in orgs : o.id = ret.args.orgId => ret'.val = << o >> ]_vars

\* two organizations were created, the older one was made active again, and
\* getActiveOrganization has returned it
C17_Witness ==
    /\ pc[O] = "idle" /\ quiet = 2
    /\ ret.op = "getActiveOrganization" /\ Len(ret.val) = 1
    /\ ret.val[1].id = RandomOrgId(1)
    /\ Cardinality(orgs) = 2
    /\ ActiveOrgIdOf(lsSession) = << RandomOrgId(1) >>

-----------------------------------------------------------------------------
(* C18 *)

\* a step of a validateSessionSync call of the observed tab
ValidateSteps ==
    /\ Stepped
    /\ \/ pc'[O] = "vs_call"
       \/ pc[O] \in {"vs_call", "vs_get", "vs_user"}

\* C18: no step of validateSessionSync changes the SessionReference, the cookie
\* or the Users, Sessions, Organizations and Members tables, whatever it finds.
C18_ValidateMutatesNothing ==
    [][ ValidateSteps
          => UNCHANGED <<lsSession, cookie, users, sessions, orgs, members>> ]_vars

\* validateSessionSync has reported a reference whose Session row is missing,
\* and the reference and the cookie are still there
C18_Witness ==
    /\ pc[O] = "idle" /\ ret.op = "validateSessionSync" /\ quiet >= 1
    /\ ~ ret.val[1].valid
    /\ ret.val[1].details.hasLocalStorageRef
    /\ ~ ret.val[1].details.hasIndexedDBSession
    /\ Len(lsSession) = 1 /\ Len(cookie) = 1

-----------------------------------------------------------------------------
(* C19 *)

\* C19: validateSessionSync reports valid = true exactly when getSession, called
\* at once after it in the same state, returns a non-null session.
C19_ValidateAgreesWithGetSession ==
    [][ (Returns("getSession") /\ quiet = 2 /\ ret.op = "validateSessionSync")
          => (ret.val[1].valid <=> ret'.val # <<>>) ]_vars

-----------------------------------------------------------------------------
(* C14 *)

\* C14: no user record handed to the UI carries a passwordHash: not the result
\* of getSession, not an element of the result of listAllUsers, and not the
\* session held by the Auth Context (after signIn.email, signUp.email or a load).
C14_NoPasswordHashInUi ==
    /\ (ret.op = "getSession" /\ ret.val # <<>>)
         => "passwordHash" \notin DOMAIN ret.val[1].user
    /\ ret.op = "listAllUsers"
         => \A u \in ret.val[1] : "passwordHash" \notin DOMAIN u
    /\ Len(ctx.session) = 1
         => "passwordHash" \notin DOMAIN ctx.session[1].user

-----------------------------------------------------------------------------
(* C20 *)

\* the observed tab has just returned from a signOut that deleted the row of
\* the session that the Auth Context of the other window still holds; the
\* SessionReference is gone and the storage event waits for delivery
SignedOutOfHeldSession ==
    /\ pc[O] = "idle"
    /\ ret.op = "signOut"
    /\ ret.at = "deleted"
    /\ lsSession = <<>>
    /\ events > 0
    /\ Len(ctx.session) = 1
    /\ ~ \E x \in sessions : x.id = ctx.session[1].session.id

-----------------------------------------------------------------------------
(* C21 *)

\* the activation p is in the signIn.email / signUp.email wrapper, awaiting
\* signInEmail / signUpEmail
InAuthWrapper(p) ==
    /\ task[p].fn \in {"signIn", "signUp"}
    /\ task[p].stage = "auth"

\* ... and this step rejects the awaited call: signInEmail and signUpEmail throw
\* out of their lookup, before any write
AuthWrapperFails(p) ==
    /\ InAuthWrapper(p)
    /\ pc[p] \in {"si_lookup", "su_lookup"}
    /\ pc'[p] = "idle"

FailureMessageOf(fn) ==
    IF fn = "signIn" THEN "Invalid email or password" ELSE "Email already registered"

\* C21: when signIn.email or signUp.email of the Auth Context fails, the wrapper
\* throws an Error with the failure message, the context's error is that
\* message, isLoading is false, and no step of the failing wrapper has changed
\* the context's session.
C21_WrapperFailure ==
    [][ \A p \in CtxThreads :
          /\ AuthWrapperFails(p)
               => /\ task'[p].thrown = << FailureMessageOf(task[p].fn) >>
                  /\ ctx'.error = << FailureMessageOf(task[p].fn) >>
                  /\ ctx'.isLoading = FALSE
          /\ ( /\ pc'[p] # pc[p]
               /\ InAuthWrapper(p) \/ (task'[p].fn \in {"signIn", "signUp"} /\ task[p].fn = "none")
               /\ pc[p] \notin {"si_addSession", "su_addSession"} )
               => ctx'.session = ctx.session ]_vars

C21_Witness ==
    /\ task[CtxMain].thrown = << "Invalid email or password" >>
    /\ ctx.error = << "Invalid email or password" >>
    /\ Len(ctx.session) = 1
    /\ ~ctx.isLoading

-----------------------------------------------------------------------------
(* C24 *)

\* C24: whenever no auth operation is in flight, the auth cookie is set if and
\* only if the SessionReference is present, and then its value is the
\* reference's token.
C24_CookieMirrorsReference ==
    AllIdle => /\ CookiePresent <=> Len(lsSession) = 1
               /\ CookiePresent /\ Len(lsSession) = 1
                    => cookie[1].value = lsSession[1].token

-----------------------------------------------------------------------------
(* C25 *)

\* the stored SessionReference is not the one that tab p read when its call
\* began: it was written since, by a sign-in or sign-up
NewerReference(p) ==
    /\ Len(loc[p].ref) = 1
    /\ Len(lsSession) = 1
    /\ lsSession[1].sessionId # loc[p].ref[1].sessionId

\* C25: a signOut that was suspended between reading the SessionReference and
\* clearing it, while a sign-in or sign-up wrote a new SessionReference,
\* resolves with that new SessionReference and its cookie still present.
C25_SignOutKeepsNewerReference ==
    [][ \A p \in Tabs :
          (pc[p] = "so_delete" /\ pc'[p] = "idle" /\ NewerReference(p))
            => (lsSession' = lsSession /\ cookie' = cookie) ]_vars

-----------------------------------------------------------------------------
(* C26 *)

\* C26: a getSession that was suspended on a database read, while another
\* operation replaced the SessionReference with one that names a valid Session,
\* returns with that newer SessionReference still present.
C26_GetSessionKeepsNewerReference ==
    [][ \A p \in Tabs :
          ( /\ pc[p] \in {"gs_get", "gs_user", "gs_delExpired", "gs_delOrphan"}
            /\ pc'[p] = "idle"
            /\ NewerReference(p)
            /\ \E x \in RefRows : ~IsExpired(x, now) /\ UsersById(x.userId) # {} )
            => lsSession' = lsSession ]_vars

-----------------------------------------------------------------------------
(* C27 *)

\* C27: whenever the Auth Context has finished loading with a null session, its
\* activeOrganization is null and its organizations list is empty.
C27_NoOrganizationsWithoutSession ==
    (ctx.mounted /\ ~ctx.isLoading /\ ctx.session = << >>
       /\ \A p \in CtxThreads : Free(p))
      => (ctx.activeOrganization = << >> /\ ctx.organizations = << >>)

-----------------------------------------------------------------------------
(* C28 *)

\* C28: once the AuthProvider is mounted, whenever isLoading is true (after the
\* mount and after every call of the signIn.email, signUp.email and signOut
\* wrappers, which set it) it becomes false in the end, whether the awaited
\* operation resolves or throws.
C28_LoadingEnds == (ctx.mounted /\ ctx.isLoading) ~> ~ctx.isLoading

\* a wrapper has set isLoading and awaits a sign-in that is going to throw
C28_Witness ==
    /\ ctx.mounted
    /\ ctx.isLoading
    /\ task[CtxMain].fn = "signIn"
    /\ pc[CtxMain] = "si_lookup"
    /\ UsersByEmail(ToLowerCase(loc[CtxMain].data.email)) = {}

-----------------------------------------------------------------------------
(* C22 *)

\* tab p is inside the read-write transaction of deleteClient
InDeleteClient(p) == pc[p] \in {"dc_holds", "dc_transactions", "dc_matters", "dc_client"}

\* tab q completes an awaited operation on a table in this step
TableStep(q) ==
    /\ pc[q] \in {"cc_add", "cm_add", "ct_add", "ch_add",
                  "gb_matter", "gb_transactions", "gb_holds", "gb_client",
                  "dc_begin", "dm_begin", "dm_transactions", "dm_matter"}
    /\ pc'[q] # pc[q]

\* C22: deleteClient(id) is atomic and complete.  When it removes the matters
\* of the client no transaction and no hold of one of them is left; when it
\* resolves, the client row and every matter with clientId = id are gone; and
\* from its first removal to its end no other call reads or writes a table, so
\* none observes a state with only part of the rows removed.
C22_DeleteClientAtomic ==
    [][ \A p \in Tabs :
          /\ (pc[p] = "dc_matters" /\ pc'[p] = "dc_client")
               => \A m \in MattersByClient(loc[p].data.id) :
                     /\ TransactionsByMatter(m.id) = {}
                     /\ HoldsByMatter(m.id) = {}
          /\ (pc[p] = "dc_client" /\ pc'[p] = "idle")
               => /\ \A c \in clients' : c.id # loc[p].data.id
                  /\ \A m \in matters' : m.clientId # loc[p].data.id
                  /\ \A t \in transactions' : ~ \E i \in DOMAIN loc[p].matterIds :
                                                    t.matterId = loc[p].matterIds[i]
                  /\ \A h \in holds' : ~ \E i \in DOMAIN loc[p].matterIds :
                                             h.matterId = loc[p].matterIds[i]
          /\ InDeleteClient(p) => \A q \in Tabs \ {p} : ~TableStep(q) ]_vars

\* deleteClient has removed a client with a matter, while the other tab was
\* between two reads of getMatterWithBalance
C22_Witness ==
    /\ ret.op = "deleteClient"
    /\ ret.val # << >>
    /\ \E q \in Tabs \ {Observed} : pc[q] \in {"gb_transactions", "gb_holds", "gb_client"}
    /\ transactions # {}

-----------------------------------------------------------------------------
(* C29 *)

\* the latest call of the observed tab was getMatterWithBalance, it found the
\* matter, and no other tab acted while it ran
BalanceRead ==
    /\ pc[Observed] = "idle"
    /\ ret.op = "getMatterWithBalance"
    /\ ret.at = "ok"
    /\ quiet >= 1

\* C29: getMatterWithBalance returns balance = the completed deposits of the
\* matter minus its completed disbursements, totalHolds = the sum of its active
\* holds and availableBalance = balance - totalHolds; pending and void
\* transactions, transfers, and released and partial holds add nothing.
C29_MatterBalance ==
    BalanceRead =>
      LET id == ret.args.id
          deposits == {t \in transactions : /\ t.matterId = id
                                            /\ t.type = "deposit"
                                            /\ t.status = "completed"}
          disbursements == {t \in transactions : /\ t.matterId = id
                                                 /\ t.type = "disbursement"
                                                 /\ t.status = "completed"}
          active == {h \in holds : h.matterId = id /\ h.status = "active"}
          result == ret.val[1]
      IN  /\ result.balance = SumAmounts(deposits) - SumAmounts(disbursements)
          /\ result.totalHolds = SumAmounts(active)
          /\ result.availableBalance = result.balance - result.totalHolds

\* a balance read over a matter with a completed deposit, a transaction that
\* does not count and a hold that is not active
C29_Witness ==
    /\ BalanceRead
    /\ ret.val[1].balance > 0
    /\ \E t \in transactions :
          /\ t.matterId = ret.args.id
          /\ (t.status # "completed" \/ t.type = "transfer")
    /\ \E h \in holds : h.matterId = ret.args.id /\ h.status # "active"

-----------------------------------------------------------------------------
(* C30 *)

\* the available balance of a matter as the tables have it
AvailableBalance(id) ==
    SumAmounts({t \in transactions : /\ t.matterId = id
                                     /\ t.type = "deposit"
                                     /\ t.status = "completed"})
      - SumAmounts({t \in transactions : /\ t.matterId = id
                                         /\ t.type = "disbursement"
                                         /\ t.status = "completed"})
      - SumAmounts({h \in holds : h.matterId = id /\ h.status = "active"})

\* C30: through every sequence of submissions of the New Transaction and New
\* Hold forms, those of two tabs interleaved included, the available balance
\* of no matter is negative.
C30_AvailableNeverNegative ==
    \A m \in matters : AvailableBalance(m.id) >= 0

-----------------------------------------------------------------------------
(* C23 *)

\* every Date in v is the value of a field whose name is in names
RECURSIVE DatesNamed(_, _)
DatesNamed(v, names) ==
    CASE v.t = "date" -> FALSE
      [] v.t = "arr" -> \A i \in DOMAIN v.items : DatesNamed(v.items[i], names)
      [] v.t = "obj" -> \A k \in DOMAIN v.f :
                           IF v.f[k].t = "date" THEN k \in names
                                                ELSE DatesNamed(v.f[k], names)
      [] OTHER -> TRUE

\* no string of v under a field name in names parses to a valid date
RECURSIVE NoDateStrings(_, _)
NoDateStrings(v, names) ==
    CASE v.t = "arr" -> \A i \in DOMAIN v.items : NoDateStrings(v.items[i], names)
      [] v.t = "obj" -> \A k \in DOMAIN v.f :
                           IF v.f[k].t = "str"
                             THEN ~(k \in names /\ DateParse(v.f[k].s) # << >>)
                             ELSE NoDateStrings(v.f[k], names)
      [] OTHER -> TRUE

\* this step is a load of the key that the step before saved
LoadAfterSave ==
    /\ ret.op = "saveToLocalStorage"
    /\ ret'.op = "loadFromLocalStorage"
    /\ ret'.args.key = ret.args.key

=============================================================================
